---- MODULE Spec2Model ----
(***************************************************************************)
(* EFA RDM provider: address vector (efa_av), address-handle cache,        *)
(* reverse (AHN,QPN) map, shm address bridge, per-peer TX/RX entry lists,  *)
(* receive cancellation and the connid check of received packets.          *)
(***************************************************************************)
EXTENDS Integers, Sequences, FiniteSets, TLC

----------------------------------------------------------------------------
(* Bounds of the model *)

\* number of entries the util_av entry pool can hold
AvCount == 2
\* rxr_env.shm_av_size: capacity of the shm address vector
shm_av_size == 2
\* size of the tx_entry pool
MaxTx == 1
\* size of the rx_entry pool
MaxRx == 1
\* number of contexts applications post receives with
MaxContext == 2
\* number of entries the rx_cq holds before the application reads it
MaxCq == 2
\* number of packets the first remote endpoint sends
MaxStale == 1
\* number of messages the second remote endpoint sends
MaxMsg == 1
\* ep->max_outstanding_tx: the posts the endpoint lets be outstanding
max_outstanding_tx == 2
\* ep->max_data_payload_size: the payload bytes of one packet
max_data_payload_size == 2
\* rxr_env.efa_read_segment_size: the bytes of one RDMA read
efa_read_segment_size == 2
\* number of messages the application sends to a peer
MaxSend == 1
\* number of posts a lower endpoint takes during one call
MaxAccept == 3
\* the largest window, in bytes, a CTS of the remote endpoint grants
MaxGrant == 3
MaxOrder == 3
\* rxr_get_rx_pool_chunk_cnt(ep): the entries of rx_pkt_efa_pool, and the
\* receive buffers the endpoint posts to the device when it is enabled
rx_size == 2
\* shm_info->rx_attr->size: the same for rx_pkt_shm_pool and the shm endpoint
shm_rx_size == 1
\* the entries of rx_unexp_pkt_pool
unexp_pool_size == 2
\* the entries of rx_ooo_pkt_pool
ooo_pool_size == 2
\* the to-post counters the model follows
MaxToPost == 3
\* rxr_env.tx_max_credits: the credits of a peer when its tx state is made
tx_max_credits == 3

(* Program constants *)

\* FI_ADDR_UNSPEC and FI_ADDR_NOTAVAIL are the same value, (uint64_t)-1
FI_ADDR_UNSPEC == -1
FI_ADDR_NOTAVAIL == -1
\* error numbers of fi_errno.h
FI_ENOMEM == 12
FI_EBUSY == 16
FI_EINVAL == 22
FI_EADDRNOTAVAIL == 99
FI_ECANCELED == 125
FI_ENOSYS == 38
FI_EAGAIN == 11
FI_EIO == 5

----------------------------------------------------------------------------
(* Raw addresses: gid:qpn:qkey.  GID 0 is the all-zero GID. *)

EfaAddr(g, q, k) == [gid |-> g, qpn |-> q, qkey |-> k]

\* the addresses applications hand to fi_av_insert: two endpoints that
\* share GID and QPN and differ in qkey (QP reuse), two of another GID that
\* differ in QPN, and one with the all-zero GID
ValidAddrs == {EfaAddr(1, 1, 1), EfaAddr(1, 1, 2), EfaAddr(2, 1, 1), EfaAddr(2, 2, 1)}
ZeroGidAddr == EfaAddr(0, 1, 1)
RawAddrs == ValidAddrs \cup {ZeroGidAddr}
Gids == {a.gid : a \in ValidAddrs}

\* local_efa_addr: the GIDs of this host's devices
local_efa_addr == {1}

\* rxr_ep->use_shm
use_shm == TRUE

NoAddr == [gid |-> 0, qpn |-> 0, qkey |-> 0]
NoAh == 0
AvIndex == 0 .. (AvCount - 1)
ShmIndex == 0 .. (shm_av_size - 1)
TxIds == 1 .. MaxTx
RxIds == 1 .. MaxRx

\* the packet entries of the receive pools of the endpoint
rx_pkt_efa_pool == 1 .. rx_size
rx_pkt_shm_pool == (rx_size + 1) .. (rx_size + shm_rx_size)
rx_unexp_pkt_pool == (rx_size + shm_rx_size + 1) .. (rx_size + shm_rx_size + unexp_pool_size)
rx_ooo_pkt_pool ==
    (rx_size + shm_rx_size + unexp_pool_size + 1)
        .. (rx_size + shm_rx_size + unexp_pool_size + ooo_pool_size)
PktIds == rx_pkt_efa_pool \cup rx_pkt_shm_pool \cup rx_unexp_pkt_pool \cup rx_ooo_pkt_pool

\* rxr_env.rx_copy_unexp
rx_copy_unexp == TRUE

\* the addr of a packet entry that no completion has written
UninitAddr == -2

\* a packet entry in its pool.  free: the entry is in the free list of the
\* pool; at: what holds the entry ("pool", the recv_more "chain", the
\* "device", a handler or RX entry "rx", the "unexp" or "ooo" staging of an
\* RX entry, or nothing ("lost")); next: the entry linked behind it, 0 for
\* NULL
FreePkt ==
    [state |-> "RXR_PKT_ENTRY_FREE", type |-> "none", next |-> 0, addr |-> UninitAddr,
     free |-> TRUE, at |-> "pool"]

\* the flags of fi_av_insert
InsertFlags == {"0", "FI_SYNC_ERR"}

\* what the environment lets fail during one fi_av_insert call
Faults == {"none", "ibv_create_ah", "malloc_reverse_av"}

VARIABLES
    util_av,            \* util_av entry pool: index -> inserted raw address, NoAddr when free
    conn,               \* efa_av_entry->conn of every pool index
    ah_map,             \* av->ah_map: gid -> efa_ah (present, used)
    reverse_av,         \* av->reverse_av: set of entries (ahn, qpn) -> conn
    used,               \* av->used
    shm_used,           \* av->shm_used
    shm_rdm_addr_map,   \* av->shm_rdm_addr_map: shm fi_addr -> efa fi_addr
    shm_av,             \* shm provider's address vector: index -> name and use count
    tx_entry,           \* tx_entry pool
    rx_entry,           \* rx_entry pool
    rx_list,            \* ep->rx_list: posted untagged receives
    rx_tagged_list,     \* ep->rx_tagged_list: posted tagged receives
    rx_unexp_list,      \* ep->rx_unexp_list: messages that found no posted receive
    rx_cq,              \* ep->util_ep.rx_cq: completion and error entries
    tx_cq,              \* ep->util_ep.tx_cq
    ep,                 \* struct rxr_ep: the progress engine's counters and lists
    net,                \* packets on their way to the endpoint
    remote,             \* the remote endpoints that own the GID and QPN in turn
    crashed,            \* the process died (failed assertion, invalid pointer)
    closed,             \* the AV has been closed
    ev                  \* the last operation: name, arguments, result, trace of its steps

vars == <<util_av, conn, ah_map, reverse_av, used, shm_used, shm_rdm_addr_map,
          shm_av, tx_entry, rx_entry, rx_list, rx_tagged_list, rx_unexp_list,
          rx_cq, tx_cq, ep, net, remote, crashed, closed, ev>>

avVars == <<util_av, conn, ah_map, reverse_av, used, shm_used, shm_rdm_addr_map, shm_av>>

epVars == <<rx_list, rx_tagged_list, rx_unexp_list, rx_cq, tx_cq>>

envVars == <<closed, net, remote>>

----------------------------------------------------------------------------
(* struct rdm_peer / struct efa_conn *)

\* memset(peer, 0, ...) followed by dlist_init of both lists
ZeroPeer ==
    [is_local |-> FALSE, shm_fiaddr |-> 0, prev_qkey |-> 0, flags |-> {},
     tx_entry_list |-> {}, rx_entry_list |-> {}, tx_pending |-> 0,
     tx_init |-> FALSE, tx_credits |-> 0, rnr_timeout |-> 0,
     next_msg_id |-> 0, exp_msg_id |-> <<0, 0>>, robuf |-> {}]

NoConn == [ep_addr |-> NoAddr, ah |-> NoAh, fi_addr |-> FI_ADDR_NOTAVAIL, rdm_peer |-> ZeroPeer]

NoShmEntry == [name |-> <<>>, use_cnt |-> 0]

\* a send as the application describes it (struct fi_msg and the flags of the
\* call): the destination, the length of the payload, the context
FiMsg(addr, len, context, flags) ==
    [op |-> "ofi_op_msg", addr |-> addr, len |-> len, context |-> context, flags |-> flags]

\* rxr_tx_entry_init
rxr_tx_entry_init(msg) ==
    [state |-> "RXR_TX_REQ", op |-> msg.op, addr |-> msg.addr, fi_flags |-> msg.flags,
     rxr_flags |-> {},
     bytes_acked |-> 0, bytes_sent |-> 0, window |-> 0, total_len |-> msg.len,
     msg_id |-> 0, queued_pkts |-> <<>>, queued_ctrl |-> 0, bytes_submitted |-> 0,
     rx_id |-> 0, credit_request |-> 0, op_context |-> msg.context]

FreeTx == [rxr_tx_entry_init(FiMsg(FI_ADDR_UNSPEC, 0, 0, {})) EXCEPT !.state = "RXR_TX_FREE"]

\* the fields rxr_ep_alloc_rx_entry sets, and those of the receive: the
\* context, the length of the buffer (cq_entry.len) and whether desc[0] is a
\* CUDA memory registration
InitRx(addr) ==
    [state |-> "RXR_RX_INIT", addr |-> addr, op_context |-> 0, rxr_flags |-> {},
     bytes_received |-> 0, bytes_copied |-> 0, window |-> 0, total_len |-> 0,
     tx_id |-> 0, msg_id |-> 0, credit_request |-> 0, cq_len |-> 0, cuda |-> FALSE,
     queued_pkts |-> <<>>,
     queued_ctrl |-> 0]

FreeRx == [InitRx(FI_ADDR_UNSPEC) EXCEPT !.state = "RXR_RX_FREE"]

\* the endpoint after rxr_endpoint_init: nothing posted, nothing queued.
\* wire is what the two transports accepted, eq the event queue, buf the bytes
\* placed in the application's receive buffers
ZeroEp ==
    [tx_pending |-> 0, peer_backoff_list |-> <<>>, peer_queued_list |-> <<>>,
     rx_entry_queued_list |-> <<>>,
     tx_entry_queued_list |-> <<>>, tx_pending_list |-> <<>>, read_pending_list |-> <<>>,
     wire |-> <<>>, eq |-> <<>>, buf |-> [c \in 1 .. MaxContext |-> 0],
     pkt |-> [p \in PktIds |-> FreePkt], rx_bufs_efa_to_post |-> 0,
     rx_bufs_shm_to_post |-> 0, recv_more |-> <<>>]

\* lock: ep->util_ep.lock as the operation left it
NoEv == [op |-> "init", args |-> <<>>, ret |-> 0, out |-> <<>>, trace |-> <<>>, lock |-> 0]

\* the AV and entry-pool state as one value, threaded through the functions
\* below; r carries a function's return value
St ==
    [util_av |-> util_av, conn |-> conn, ah_map |-> ah_map, reverse_av |-> reverse_av,
     used |-> used, shm_used |-> shm_used, shm_rdm_addr_map |-> shm_rdm_addr_map,
     shm_av |-> shm_av, tx_entry |-> tx_entry, rx_entry |-> rx_entry,
     rx_list |-> rx_list, rx_tagged_list |-> rx_tagged_list,
     rx_unexp_list |-> rx_unexp_list, rx_cq |-> rx_cq, tx_cq |-> tx_cq, ep |-> ep,
     crashed |-> crashed, trace |-> <<>>, out |-> <<>>, uninit_read |-> FALSE,
     freed_read |-> FALSE, accept |-> 0, xerr |-> FI_EAGAIN, ub |-> "none",
     lock |-> 0, more |-> 0, stale |-> FI_ADDR_NOTAVAIL, next |-> "go", rest |-> <<>>,
     r |-> 0]

\* the value of a local variable, handed to the code that follows its
\* assignment
Bind(v, Op(_)) == CHOOSE r \in {Op(x) : x \in {v}} : TRUE

\* one step of an operation, kept in its trace
Step(e, gid, c, flag) == [e |-> e, gid |-> gid, conn |-> c, flag |-> flag]
Log(s, e) == [s EXCEPT !.trace = Append(@, e)]

InList(list, x) == \E k \in DOMAIN list : list[k] = x

\* fastlock_acquire / fastlock_release of ep->util_ep.lock by the calling
\* thread: lock is 1 while the thread holds it
fastlock_acquire(s) == [s EXCEPT !.lock = 1]
fastlock_release(s) == [s EXCEPT !.lock = 0]

\* the process dies: nothing of its memory is left
Crash(s) ==
    [s EXCEPT !.util_av = [i \in AvIndex |-> NoAddr],
              !.conn = [i \in AvIndex |-> NoConn],
              !.ah_map = [g \in Gids |-> [present |-> FALSE, used |-> 0]],
              !.reverse_av = {},
              !.used = 0,
              !.shm_used = 0,
              !.shm_rdm_addr_map = [x \in ShmIndex |-> FI_ADDR_UNSPEC],
              !.shm_av = [x \in ShmIndex |-> NoShmEntry],
              !.tx_entry = [t \in DOMAIN s.tx_entry |-> FreeTx],
              !.rx_entry = [x \in DOMAIN s.rx_entry |-> FreeRx],
              !.rx_list = <<>>,
              !.rx_tagged_list = <<>>,
              !.rx_unexp_list = <<>>,
              !.rx_cq = <<>>,
              !.tx_cq = <<>>,
              !.crashed = TRUE]

\* the remote endpoints of one GID and QPN: the first exists from the start
NoRemote == [old |-> "alive", new |-> "none", stale |-> 0, sent |-> 0]

InitOf(tx_pool, rx_pool) ==
    /\ util_av = [i \in AvIndex |-> NoAddr]
    /\ conn = [i \in AvIndex |-> NoConn]
    /\ ah_map = [g \in Gids |-> [present |-> FALSE, used |-> 0]]
    /\ reverse_av = {}
    /\ used = 0
    /\ shm_used = 0
    /\ shm_rdm_addr_map = [x \in ShmIndex |-> FI_ADDR_UNSPEC]
    /\ shm_av = [x \in ShmIndex |-> NoShmEntry]
    /\ tx_entry = [t \in tx_pool |-> FreeTx]
    /\ rx_entry = [x \in rx_pool |-> FreeRx]
    /\ rx_list = <<>>
    /\ rx_tagged_list = <<>>
    /\ rx_unexp_list = <<>>
    /\ rx_cq = <<>>
    /\ tx_cq = <<>>
    /\ ep = ZeroEp
    /\ net = {}
    /\ remote = NoRemote
    /\ crashed = FALSE
    /\ closed = FALSE
    /\ ev = NoEv

Init == InitOf(TxIds, RxIds)

----------------------------------------------------------------------------
(* util_av and the shm provider's address vector *)

FreeIndexes(av) == {i \in DOMAIN av : av[i] = NoAddr}

\* ofi_av_lookup_fi_addr_unsafe: index of an inserted raw address
ofi_av_lookup_fi_addr_unsafe(av, addr) ==
    IF \E i \in DOMAIN av : av[i] = addr
    THEN CHOOSE i \in DOMAIN av : av[i] = addr
    ELSE FI_ADDR_NOTAVAIL

\* ofi_av_insert_addr: takes the first free entry of the pool; fails when
\* none is left.  r is the index, or a negative error.
ofi_av_insert_addr(s, addr) ==
    IF FreeIndexes(s.util_av) = {}
    THEN [s EXCEPT !.r = -FI_ENOMEM]
    ELSE LET i == CHOOSE i \in FreeIndexes(s.util_av) :
                      \A j \in FreeIndexes(s.util_av) : i <= j
         IN [[s EXCEPT !.util_av[i] = addr] EXCEPT !.r = i]

ofi_av_remove_addr(s, i) == [s EXCEPT !.util_av[i] = NoAddr]

\* rxr_ep_efa_addr_to_str: the shm endpoint name is made of GID and QPN
smr_name(addr) == <<addr.gid, addr.qpn>>

\* fi_av_insert on the shm AV: one entry per name, counted; r is the number
\* of addresses inserted (1) or an error, with the shm fi_addr in field x
shm_fi_av_insert(s, name) ==
    LET have == {x \in ShmIndex : s.shm_av[x].name = name}
        free == {x \in ShmIndex : s.shm_av[x].use_cnt = 0}
    IN IF have # {}
       THEN LET x == CHOOSE x \in have : TRUE
            IN [r |-> 1, x |-> x, shm_av |-> [s.shm_av EXCEPT ![x].use_cnt = @ + 1]]
       ELSE IF free = {} THEN [r |-> -FI_ENOMEM, x |-> 0, shm_av |-> s.shm_av]
       ELSE LET x == CHOOSE x \in free : \A y \in free : x <= y
            IN [r |-> 1, x |-> x,
                shm_av |-> [s.shm_av EXCEPT ![x] = [name |-> name, use_cnt |-> 1]]]

\* fi_av_remove on the shm AV
shm_fi_av_remove(av, x) ==
    IF av[x].use_cnt <= 1 THEN [av EXCEPT ![x] = NoShmEntry]
    ELSE [av EXCEPT ![x].use_cnt = @ - 1]

----------------------------------------------------------------------------
(* address handles *)

\* efadv_query_ah: the device's address handle number of the AH of a GID
ahn_of(gid) == gid

\* efa_ah_alloc that does not count the use of a cached address handle
efa_ah_alloc_nocount(s, gid, fault) ==
    IF s.ah_map[gid].present
    THEN [s EXCEPT !.r = gid]
    ELSE IF fault = "ibv_create_ah"
    THEN [s EXCEPT !.r = NoAh]
    ELSE [Log([s EXCEPT !.ah_map[gid] = [present |-> TRUE, used |-> 1]],
              Step("ibv_create_ah", gid, -1, FALSE))
          EXCEPT !.r = gid]

\* efa_ah_alloc: r is the efa_ah (named by its GID) or NoAh
efa_ah_alloc(s, gid, fault) ==
    IF s.ah_map[gid].present
    THEN [[s EXCEPT !.ah_map[gid].used = @ + 1] EXCEPT !.r = gid]
    ELSE IF fault = "ibv_create_ah"
    THEN [s EXCEPT !.r = NoAh]
    ELSE [Log([s EXCEPT !.ah_map[gid] = [present |-> TRUE, used |-> 1]],
              Step("ibv_create_ah", gid, -1, FALSE))
          EXCEPT !.r = gid]

\* efa_ah_release that keeps the address handle when its used count is 0
efa_ah_release_keep(s, ah) == [s EXCEPT !.ah_map[ah].used = @ - 1]

\* efa_ah_release
efa_ah_release(s, ah) ==
    IF s.ah_map[ah].used - 1 = 0
    THEN Log([s EXCEPT !.ah_map[ah] = [present |-> FALSE, used |-> @.used - 1]],
             Step("ibv_destroy_ah", ah, -1, FALSE))
    ELSE [s EXCEPT !.ah_map[ah].used = @ - 1]

----------------------------------------------------------------------------
(* TX / RX entries and the peer's lists *)

\* rxr_ep_get_peer: the rdm_peer of an fi_addr
rxr_ep_get_peer(s, addr) == s.conn[addr].rdm_peer

\* efa_peer_in_use: an in-use TX or RX entry still references the peer
efa_peer_in_use(peer) == peer.tx_entry_list # {} \/ peer.rx_entry_list # {}

\* rxr_release_tx_entry
rxr_release_tx_entry(s, t) ==
    [s EXCEPT !.conn[s.tx_entry[t].addr].rdm_peer.tx_entry_list = @ \ {t},
              !.tx_entry[t] = FreeTx]

\* rxr_release_rx_entry
rxr_release_rx_entry(s, x) ==
    IF s.rx_entry[x].addr = FI_ADDR_UNSPEC
    THEN [s EXCEPT !.rx_entry[x] = FreeRx]
    ELSE [s EXCEPT !.conn[s.rx_entry[x].addr].rdm_peer.rx_entry_list = @ \ {x},
                   !.rx_entry[x] = FreeRx]

RECURSIVE ReleaseTxList(_, _)
ReleaseTxList(s, list) ==
    IF list = {} THEN s
    ELSE LET t == CHOOSE t \in list : TRUE
         IN ReleaseTxList(rxr_release_tx_entry(s, t), list \ {t})

RECURSIVE ReleaseRxList(_, _)
ReleaseRxList(s, list) ==
    IF list = {} THEN s
    ELSE LET x == CHOOSE x \in list : TRUE
         IN ReleaseRxList(rxr_release_rx_entry(s, x), list \ {x})

\* efa_rdm_peer_clear that leaves the entries of the lists as they are
efa_rdm_peer_clear_keep(s, i) == [s EXCEPT !.conn[i].rdm_peer = ZeroPeer]

\* efa_rdm_peer_clear: releases every TX and RX entry of the peer's lists,
\* then zeroes the peer
efa_rdm_peer_clear(s, i) ==
    [ReleaseRxList(ReleaseTxList(s, s.conn[i].rdm_peer.tx_entry_list),
                   s.conn[i].rdm_peer.rx_entry_list)
     EXCEPT !.conn[i].rdm_peer = ZeroPeer]

----------------------------------------------------------------------------
(* efa_conn *)

\* efa_is_local_peer
efa_is_local_peer(addr) == addr.gid \in local_efa_addr

\* efa_av_addr_to_conn for FI_AV_TABLE: the pool entry of the index
efa_av_addr_to_conn(s, fi_addr) ==
    IF fi_addr = FI_ADDR_UNSPEC THEN NoConn ELSE s.conn[fi_addr]

\* HASH_FIND in av->reverse_av
ReverseFind(s, ahn, qpn) == {e \in s.reverse_av : e.ahn = ahn /\ e.qpn = qpn}

\* efa_ahn_qpn_to_addr
efa_ahn_qpn_to_addr(s, ahn, qpn) ==
    IF ReverseFind(s, ahn, qpn) = {} THEN FI_ADDR_NOTAVAIL
    ELSE (CHOOSE e \in ReverseFind(s, ahn, qpn) : TRUE).conn

\* efa_conn_rdm_init: r is 0 or an error
efa_conn_rdm_init(s, i) ==
    LET s1 == [s EXCEPT !.conn[i].rdm_peer = ZeroPeer]
        addr == s.conn[i].ep_addr
    IN IF use_shm /\ efa_is_local_peer(addr)
       THEN IF s1.shm_used >= shm_av_size
            THEN [s1 EXCEPT !.r = -FI_ENOMEM]
            ELSE LET ins == shm_fi_av_insert(s1, smr_name(addr))
                 IN IF ins.r # 1
                    THEN [s1 EXCEPT !.r = 0]
                    ELSE [s1 EXCEPT !.shm_av = ins.shm_av,
                                    !.shm_used = @ + 1,
                                    !.shm_rdm_addr_map[ins.x] = s.conn[i].fi_addr,
                                    !.conn[i].rdm_peer.shm_fiaddr = ins.x,
                                    !.conn[i].rdm_peer.is_local = TRUE,
                                    !.r = 0]
       ELSE [s1 EXCEPT !.r = 0]

\* efa_conn_rdm_deinit
efa_conn_rdm_deinit(s, i) ==
    LET peer == s.conn[i].rdm_peer
        s1 == IF peer.is_local
              THEN [s EXCEPT !.shm_av = shm_fi_av_remove(@, peer.shm_fiaddr),
                             !.shm_used = @ - 1,
                             !.shm_rdm_addr_map[peer.shm_fiaddr] = FI_ADDR_UNSPEC]
              ELSE s
    IN efa_rdm_peer_clear(s1, i)

\* efa_conn_release
efa_conn_release(s, i) ==
    Bind(efa_conn_rdm_deinit(Log(s, Step("efa_conn_release", s.conn[i].ep_addr.gid, i,
                                         efa_peer_in_use(s.conn[i].rdm_peer))),
                             i),
         LAMBDA s1 :
            Bind(ReverseFind(s1, ahn_of(s1.conn[i].ah), s1.conn[i].ep_addr.qpn),
                 LAMBDA found :
                    IF found = {}
                    THEN Crash(s1)
                    ELSE [ofi_av_remove_addr(
                              efa_ah_release(
                                  [s1 EXCEPT !.reverse_av = @ \ {CHOOSE e \in found : TRUE}],
                                  s1.conn[i].ah),
                              i)
                          EXCEPT !.conn[i] = NoConn, !.used = @ - 1]))

\* values of a struct efa_reverse_av pointer that point to no entry
NullEntry == [ahn |-> 0, qpn |-> 0, conn |-> -1]
WildEntry == [ahn |-> 0, qpn |-> 0, conn |-> -2]

\* the err_release label of efa_conn_alloc.  entry is the value of the local
\* reverse_av_entry: NULL, an entry of the reverse map, or any other pointer,
\* on which HASH_DEL and free destroy the process
err_release(s, i, entry) ==
    IF entry # NullEntry /\ entry \notin s.reverse_av
    THEN [Crash(s) EXCEPT !.r = FI_ADDR_NOTAVAIL]
    ELSE Bind([s EXCEPT !.reverse_av = @ \ {entry}],
              LAMBDA s1 :
                 [ofi_av_remove_addr(IF s1.conn[i].ah # NoAh
                                     THEN efa_ah_release(s1, s1.conn[i].ah)
                                     ELSE s1,
                                     i)
                  EXCEPT !.conn[i] = NoConn, !.r = FI_ADDR_NOTAVAIL])

\* the tail of efa_conn_alloc without the release of the previous peer
efa_conn_alloc_register_keep_prev(s, i, fault) ==
    LET c == s.conn[i]
        key == [ahn |-> ahn_of(c.ah), qpn |-> c.ep_addr.qpn]
        found == ReverseFind(s, key.ahn, key.qpn)
    IN IF fault = "malloc_reverse_av" THEN err_release(s, i, NullEntry)
       ELSE [Log([s EXCEPT !.reverse_av = @ \cup {[ahn |-> key.ahn, qpn |-> key.qpn, conn |-> i]},
                           !.used = @ + 1],
                 Step("HASH_ADD", c.ep_addr.gid, i, found # {}))
             EXCEPT !.r = i]

\* the tail of efa_conn_alloc, from the reverse map lookup on
efa_conn_alloc_register(s, i, fault) ==
    LET c == s.conn[i]
        key == [ahn |-> ahn_of(c.ah), qpn |-> c.ep_addr.qpn]
        found == ReverseFind(s, key.ahn, key.qpn)
        prev == (CHOOSE e \in found : TRUE).conn
    IN Bind(IF found = {} THEN s
            ELSE efa_conn_release(
                     [s EXCEPT !.conn[i].rdm_peer.prev_qkey = s.conn[prev].ep_addr.qkey],
                     prev),
            LAMBDA s1 :
               IF s1.crashed THEN [s1 EXCEPT !.r = FI_ADDR_NOTAVAIL]
               ELSE IF fault = "malloc_reverse_av" THEN err_release(s1, i, NullEntry)
               ELSE [Log([s1 EXCEPT !.reverse_av =
                                        @ \cup {[ahn |-> key.ahn, qpn |-> key.qpn, conn |-> i]},
                                    !.used = @ + 1],
                         Step("HASH_ADD", c.ep_addr.gid, i, found # {}))
                     EXCEPT !.r = i])

\* efa_conn_alloc: r is the fi_addr of the new conn, or FI_ADDR_NOTAVAIL for
\* NULL.  uninit is what the uninitialized local reverse_av_entry holds.
efa_conn_alloc(s, raw_addr, fault, uninit) ==
    IF raw_addr.gid = 0 THEN [s EXCEPT !.r = FI_ADDR_NOTAVAIL]
    ELSE Bind(ofi_av_insert_addr(s, raw_addr),
              LAMBDA s1 :
                 IF s1.r < 0 THEN [s1 EXCEPT !.r = FI_ADDR_NOTAVAIL]
                 ELSE Bind(efa_ah_alloc([s1 EXCEPT !.conn[s1.r] =
                                            [ep_addr |-> raw_addr, ah |-> NoAh,
                                             fi_addr |-> s1.r, rdm_peer |-> @.rdm_peer]],
                                        raw_addr.gid, fault),
                           LAMBDA s3 :
                              IF s3.r = NoAh
                              THEN err_release([s3 EXCEPT !.conn[s1.r].ah = s3.r,
                                                          !.uninit_read = TRUE],
                                               s1.r, uninit)
                              ELSE Bind(efa_conn_rdm_init([s3 EXCEPT !.conn[s1.r].ah = s3.r],
                                                          s1.r),
                                        LAMBDA s5 :
                                           IF s5.r # 0
                                           THEN err_release([s5 EXCEPT !.uninit_read = TRUE],
                                                            s1.r, uninit)
                                           ELSE efa_conn_alloc_register(s5, s1.r, fault))))

----------------------------------------------------------------------------
(* fi_av_insert, fi_av_remove, fi_close *)

\* efa_av_insert_one without the lookup of the address in the AV
efa_av_insert_one_nolookup(s, addr, fault, uninit) == efa_conn_alloc(s, addr, fault, uninit)

\* efa_av_insert_one: r is the fi_addr written to *fi_addr; the function
\* returns 0 unless that is FI_ADDR_NOTAVAIL, and then -FI_EADDRNOTAVAIL
efa_av_insert_one(s, addr, fault, uninit) ==
    LET efa_fiaddr == ofi_av_lookup_fi_addr_unsafe(s.util_av, addr)
    IN IF efa_fiaddr # FI_ADDR_NOTAVAIL
       THEN [s EXCEPT !.r = efa_fiaddr]
       ELSE efa_conn_alloc(s, addr, fault, uninit)

\* the two loops of efa_av_insert: insert until the first failure, then
\* give FI_ADDR_NOTAVAIL to the rest
RECURSIVE efa_av_insert_loop(_, _, _, _, _, _)
efa_av_insert_loop(s, addrs, k, failed, fault, uninit) ==
    IF k > Len(addrs) \/ s.crashed THEN s
    ELSE IF failed
    THEN efa_av_insert_loop([s EXCEPT !.out = Append(@, FI_ADDR_NOTAVAIL)],
                            addrs, k + 1, TRUE, fault, uninit)
    ELSE Bind(efa_av_insert_one(s, addrs[k], fault, uninit),
              LAMBDA s1 :
                 efa_av_insert_loop(
                     [(IF s1.r = FI_ADDR_NOTAVAIL
                       THEN Log(s1, Step("efa_av_insert_one", addrs[k], s1.r,
                                         -FI_EADDRNOTAVAIL))
                       ELSE s1)
                      EXCEPT !.out = Append(@, s1.r)],
                     addrs, k + 1, s1.r = FI_ADDR_NOTAVAIL, fault, uninit))

\* an efa_av_insert that counts every address of the call as inserted
efa_av_insert_countall(s, addrs, flags, fault, uninit) ==
    IF flags # "0" THEN [s EXCEPT !.r = -FI_ENOSYS]
    ELSE Bind(efa_av_insert_loop(s, addrs, 1, FALSE, fault, uninit),
              LAMBDA s1 : [s1 EXCEPT !.r = Len(s1.out)])

\* efa_av_insert: r is the number of addresses inserted, or an error
efa_av_insert(s, addrs, flags, fault, uninit) ==
    IF flags # "0" THEN [s EXCEPT !.r = -FI_ENOSYS]
    ELSE Bind(efa_av_insert_loop(s, addrs, 1, FALSE, fault, uninit),
              LAMBDA s1 :
                 [s1 EXCEPT !.r = Cardinality({k \in DOMAIN s1.out :
                                                 s1.out[k] # FI_ADDR_NOTAVAIL})])

\* efa_av_remove without the check that the peer is in use
RECURSIVE efa_av_remove_nobusy(_, _, _)
efa_av_remove_nobusy(s, fi_addr, k) ==
    IF k > Len(fi_addr) \/ s.crashed THEN [s EXCEPT !.r = 0]
    ELSE IF fi_addr[k] = FI_ADDR_UNSPEC
    THEN [s EXCEPT !.r = -FI_EINVAL]
    ELSE efa_av_remove_nobusy(efa_conn_release(s, fi_addr[k]), fi_addr, k + 1)

\* efa_av_remove: r is 0 or the error of the first address that failed.
\* efa_av_addr_to_conn tests the fi_addr for FI_ADDR_UNSPEC only: for an
\* fi_addr that is not inserted it returns NULL when the pool has no entry for
\* it (ub is "none"), or the memory of the entry as its release left it
\* (FI_AV_MAP casts the fi_addr to the conn; ofi_bufpool_get_ibuf takes the
\* entry of the index), which efa_conn_release then releases once more
RECURSIVE efa_av_remove(_, _, _)
efa_av_remove(s, fi_addr, k) ==
    IF k > Len(fi_addr) \/ s.crashed THEN [s EXCEPT !.r = 0]
    ELSE IF fi_addr[k] = FI_ADDR_UNSPEC
    THEN [s EXCEPT !.r = -FI_EINVAL]
    ELSE IF s.util_av[fi_addr[k]] = NoAddr /\ s.ub = "none"
    THEN [s EXCEPT !.r = -FI_EINVAL]
    ELSE IF efa_peer_in_use(efa_av_addr_to_conn(s, fi_addr[k]).rdm_peer)
    THEN [s EXCEPT !.r = -FI_EBUSY]
    ELSE efa_av_remove(efa_conn_release(s, fi_addr[k]), fi_addr, k + 1)

\* efa_av_close_reverse_av: releases the conn of every reverse map entry
RECURSIVE efa_av_close_reverse_av(_)
efa_av_close_reverse_av(s) ==
    IF s.reverse_av = {} \/ s.crashed THEN s
    ELSE efa_av_close_reverse_av(
             efa_conn_release(s, (CHOOSE e \in s.reverse_av : TRUE).conn))

\* rxr_ep_alloc_tx_entry: r is the entry, 0 when the pool is exhausted
rxr_ep_alloc_tx_entry(s, addr) ==
    LET free == {t \in DOMAIN s.tx_entry : s.tx_entry[t].state = "RXR_TX_FREE"}
    IN IF free = {} THEN [s EXCEPT !.r = 0]
       ELSE LET t == CHOOSE t \in free : \A u \in free : t <= u
            IN [s EXCEPT !.tx_entry[t] = rxr_tx_entry_init(FiMsg(addr, 0, 0, {})),
                         !.conn[addr].rdm_peer.tx_entry_list = @ \cup {t},
                         !.r = t]

\* rxr_ep_alloc_rx_entry: r is the entry, 0 when the pool is exhausted
rxr_ep_alloc_rx_entry(s, addr) ==
    LET free == {x \in DOMAIN s.rx_entry : s.rx_entry[x].state = "RXR_RX_FREE"}
    IN IF free = {} THEN [s EXCEPT !.r = 0]
       ELSE LET x == CHOOSE x \in free : \A y \in free : x <= y
                s1 == [s EXCEPT !.rx_entry[x] = InitRx(addr), !.r = x]
            IN IF addr # FI_ADDR_UNSPEC
               THEN [s1 EXCEPT !.conn[addr].rdm_peer.rx_entry_list = @ \cup {x}]
               ELSE s1

----------------------------------------------------------------------------
(* posted receives, completions, cancel *)

RECURSIVE Without(_, _)
Without(seq, x) ==
    IF seq = <<>> THEN <<>>
    ELSE IF Head(seq) = x THEN Without(Tail(seq), x)
    ELSE <<Head(seq)>> \o Without(Tail(seq), x)

RemoveAt(seq, k) == [j \in 1 .. (Len(seq) - 1) |-> IF j < k THEN seq[j] ELSE seq[j + 1]]

\* a completion queue entry: err is 0 for a completion, the error for an error
\* entry; connid and msg say whose message was delivered, 0 when none
CqEntry(context, err, connid, msg) ==
    [op_context |-> context, err |-> err, connid |-> connid, msg |-> msg]

\* rxr_msg_recv / rxr_msg_trecv: a message of the unexpected list completes
\* the receive at once; otherwise the receive is posted to rx_list or
\* rx_tagged_list.  Receives are posted for any source.
rxr_msg_generic_recv(s, context, tagged) ==
    IF ~tagged /\ s.rx_unexp_list # <<>>
    THEN [s EXCEPT !.rx_unexp_list = Tail(@),
                   !.rx_cq = Append(@, CqEntry(context, 0, Head(s.rx_unexp_list).connid,
                                               Head(s.rx_unexp_list).msg)),
                   !.r = 0]
    ELSE Bind(rxr_ep_alloc_rx_entry(s, FI_ADDR_UNSPEC),
              LAMBDA s1 :
                 IF s1.r = 0 THEN [s1 EXCEPT !.r = -FI_EAGAIN]
                 ELSE IF tagged
                 THEN [s1 EXCEPT !.rx_entry[s1.r].op_context = context,
                                 !.rx_tagged_list = Append(@, s1.r), !.r = 0]
                 ELSE [s1 EXCEPT !.rx_entry[s1.r].op_context = context,
                                 !.rx_list = Append(@, s1.r), !.r = 0])

\* rxr_ep_cancel_match_recv
rxr_ep_cancel_match_recv(s, x, context) == s.rx_entry[x].op_context = context

\* ofi_cq_write_error on the rx_cq: r is 0
ofi_cq_write_error(s, err_entry) == [s EXCEPT !.rx_cq = Append(@, err_entry), !.r = 0]

\* rxr_ep_cancel_recv on ep->rx_list (tagged FALSE) or ep->rx_tagged_list
\* (tagged TRUE); r is 0 when nothing matches and the result of
\* ofi_cq_write_error otherwise
rxr_ep_cancel_recv(s, tagged, context) ==
    LET recv_list == IF tagged THEN s.rx_tagged_list ELSE s.rx_list
        match == {k \in DOMAIN recv_list : rxr_ep_cancel_match_recv(s, recv_list[k], context)}
    IN IF match = {} THEN [fastlock_release(fastlock_acquire(s)) EXCEPT !.r = 0]
       ELSE LET k == CHOOSE k \in match : \A j \in match : k <= j
                x == recv_list[k]
                s1 == IF tagged
                      THEN [fastlock_acquire(s) EXCEPT
                               !.rx_tagged_list = RemoveAt(@, k),
                               !.rx_entry[x].rxr_flags = @ \cup {"RXR_RECV_CANCEL"},
                               !.trace = Append(@, Step("RXR_RECV_CANCEL", x, 0, 1))]
                      ELSE [fastlock_acquire(s) EXCEPT
                               !.rx_list = RemoveAt(@, k),
                               !.rx_entry[x].rxr_flags = @ \cup {"RXR_RECV_CANCEL"},
                               !.trace = Append(@, Step("RXR_RECV_CANCEL", x, 0, 1))]
                err_entry == CqEntry(s1.rx_entry[x].op_context, FI_ECANCELED, 0, 0)
            IN Bind(fastlock_release(s1),
                    LAMBDA s2 :
                       Bind(Log(s2, Step("err_entry", x, 0, s2.lock)),
                            LAMBDA s3 :
                               IF s3.rx_entry[x].state
                                     \in {"RXR_RX_INIT", "RXR_RX_UNEXP", "RXR_RX_MATCHED"}
                               THEN ofi_cq_write_error(
                                        Log(rxr_release_rx_entry(s3, x),
                                            Step("rxr_release_rx_entry", x, 0, s3.lock)),
                                        err_entry)
                               ELSE ofi_cq_write_error(s3, err_entry)))

\* rxr_ep_cancel
rxr_ep_cancel(s, context) ==
    Bind(rxr_ep_cancel_recv(s, FALSE, context),
         LAMBDA s1 :
            IF s1.r # 0 THEN s1
            ELSE rxr_ep_cancel_recv(s1, TRUE, context))

----------------------------------------------------------------------------
(* received packets *)

\* packet types (protocol table 1.1)
RXR_CTS_PKT == 3
RXR_DATA_PKT == 4
RXR_READRSP_PKT == 5
RXR_EOR_PKT == 7
RXR_HANDSHAKE_PKT == 9
RXR_RECEIPT_PKT == 10
RXR_REQ_PKT_BEGIN == 64
RXR_EAGER_MSGRTM_PKT == 64
RXR_MEDIUM_MSGRTM_PKT == 66
RXR_LONGCTS_MSGRTM_PKT == 68

\* rxr_env.tx_min_credits: the DATA packets a CTS grants at least
tx_min_credits == 1

\* rxr_env.recvwin_size: the msg_ids the reorder buffer of a peer holds
recvwin_size == 16384

\* the pointer rxr_pkt_connid_hdr returns for a packet without the header
NoConnid == 0

\* the flag bit that says a packet of the type has the connid header
OptConnidFlag(type) ==
    CASE type >= RXR_REQ_PKT_BEGIN -> "RXR_REQ_OPT_CONNID_HDR"
      [] type = RXR_CTS_PKT -> "RXR_CTS_OPT_CONNID_HDR"
      [] type = RXR_DATA_PKT -> "RXR_DATA_OPT_CONNID_HDR"
      [] type = RXR_READRSP_PKT -> "RXR_READRSP_OPT_CONNID_HDR"
      [] type = RXR_EOR_PKT -> "RXR_EOR_OPT_CONNID_HDR"
      [] type = RXR_RECEIPT_PKT -> "RXR_RECEIPT_OPT_CONNID_HDR"
      [] type = RXR_HANDSHAKE_PKT -> "RXR_HANDSHAKE_OPT_CONNID_HDR"

\* a packet of a sender with raw address src: base header (type, flags), the
\* connid field, the raw address header of a REQ packet, the id of the TX or
\* RX entry the packet is for (send_id, recv_id), and the message it carries
Pkt(type, flags, src, id, msg) ==
    [type |-> type, flags |-> flags, gid |-> src.gid, qpn |-> src.qpn,
     connid |-> src.qkey, raw_addr |-> src, id |-> id, msg |-> msg,
     msg_id |-> 0, msg_length |-> 0, send_id |-> 0, credit_request |-> 0,
     recv_length |-> 0, len |-> 0, offset |-> 0]

\* rxr_pkt_req_connid_hdr: the optional connid header of a REQ packet
rxr_pkt_req_connid_hdr(pkt) ==
    IF "RXR_REQ_OPT_CONNID_HDR" \in pkt.flags THEN pkt.connid ELSE NoConnid

\* rxr_pkt_connid_hdr: the connid of the header, NoConnid for NULL
rxr_pkt_connid_hdr(pkt) ==
    IF pkt.type >= RXR_REQ_PKT_BEGIN THEN rxr_pkt_req_connid_hdr(pkt)
    ELSE IF pkt.type = RXR_CTS_PKT
    THEN (IF "RXR_CTS_OPT_CONNID_HDR" \in pkt.flags THEN pkt.connid ELSE NoConnid)
    ELSE IF pkt.type = RXR_RECEIPT_PKT
    THEN (IF "RXR_RECEIPT_OPT_CONNID_HDR" \in pkt.flags THEN pkt.connid ELSE NoConnid)
    ELSE IF pkt.type = RXR_DATA_PKT
    THEN (IF "RXR_DATA_OPT_CONNID_HDR" \in pkt.flags THEN pkt.connid ELSE NoConnid)
    ELSE IF pkt.type = RXR_HANDSHAKE_PKT
    THEN (IF "RXR_HANDSHAKE_OPT_CONNID_HDR" \in pkt.flags THEN pkt.connid ELSE NoConnid)
    ELSE NoConnid

----------------------------------------------------------------------------
(* packet entries and the two transports (rdm_ep, shm_ep) *)

\* a packet entry of the endpoint: the type of its packet, the peer it is
\* for, the TX or RX entry that owns it (x_entry), and the header fields the
\* type has (data_length, data_offset, recv_length); flags has "dc" for the
\* DC_ variant of a REQ packet
PktEntry(type, addr, owner, id, len, offset) ==
    [type |-> type, addr |-> addr, owner |-> owner, id |-> id, len |-> len,
     offset |-> offset, recv_length |-> 0, flags |-> {}, state |-> "RXR_PKT_ENTRY_IN_USE"]

\* fi_sendmsg / fi_read of a lower endpoint.  The transport takes the next
\* s.accept posts of the call and refuses the one after them with s.xerr: a
\* post it took is on the wire until its completion is polled.
fi_post(s, pkt_entry) ==
    IF s.accept > 0
    THEN [s EXCEPT !.accept = @ - 1, !.ep.wire = Append(@, pkt_entry),
                   !.trace = Append(@, Step("fi_post", pkt_entry, s.more, 0)), !.r = 0]
    ELSE [s EXCEPT !.trace = Append(@, Step("fi_post", pkt_entry, s.more, s.xerr)),
                   !.r = -s.xerr]

\* rxr_ep_inc_tx_pending
rxr_ep_inc_tx_pending(s, addr) ==
    [s EXCEPT !.ep.tx_pending = @ + 1, !.conn[addr].rdm_peer.tx_pending = @ + 1]

\* rxr_ep_dec_tx_pending
rxr_ep_dec_tx_pending(s, addr) ==
    [s EXCEPT !.ep.tx_pending = @ - 1, !.conn[addr].rdm_peer.tx_pending = @ - 1]

\* rxr_pkt_entry_sendmsg.  The assertion is compiled in debug builds only.
rxr_pkt_entry_sendmsg(s, pkt_entry) ==
    IF s.ep.tx_pending > max_outstanding_tx /\ s.ub = "crash" THEN Crash(s)
    ELSE IF s.ep.tx_pending = max_outstanding_tx THEN [s EXCEPT !.r = -FI_EAGAIN]
    ELSE IF "RXR_PEER_IN_BACKOFF" \in rxr_ep_get_peer(s, pkt_entry.addr).flags
    THEN [s EXCEPT !.r = -FI_EAGAIN]
    ELSE IF rxr_ep_get_peer(s, pkt_entry.addr).is_local
    THEN fi_post(s, pkt_entry)
    ELSE Bind(fi_post(s, pkt_entry),
              LAMBDA s1 : IF s1.r = 0 THEN rxr_ep_inc_tx_pending(s1, pkt_entry.addr) ELSE s1)

\* rxr_pkt_entry_send
rxr_pkt_entry_send(s, pkt_entry) == rxr_pkt_entry_sendmsg(s, pkt_entry)

----------------------------------------------------------------------------
(* control packets of an RX entry, and the data of the packets it receives *)

MIN(a, b) == IF a < b THEN a ELSE b
MAX(a, b) == IF a > b THEN a ELSE b

\* a window that is what the sender asks for, which may be nothing
rxr_pkt_calc_cts_window_request(rx) ==
    MIN(rx.total_len - rx.bytes_received, rx.credit_request * max_data_payload_size)

\* rxr_pkt_init_cts: the window the receiver grants, recv_length of the CTS
rxr_pkt_calc_cts_window(rx) ==
    MIN(rx.total_len - rx.bytes_received,
        MAX(rx.credit_request, tx_min_credits) * max_data_payload_size)

\* rxr_pkt_post_ctrl for an RX entry: CTS or RECEIPT
rxr_pkt_post_ctrl_rx(s, x, type) ==
    IF type = RXR_CTS_PKT
    THEN Bind(rxr_pkt_entry_send(
                  s, [PktEntry(RXR_CTS_PKT, s.rx_entry[x].addr, "rx", x, 0, 0)
                      EXCEPT !.recv_length = rxr_pkt_calc_cts_window(s.rx_entry[x])]),
              LAMBDA s1 :
                 IF s1.r # 0 \/ s1.crashed THEN s1
                 ELSE [s1 EXCEPT !.rx_entry[x].window =
                                     rxr_pkt_calc_cts_window(s.rx_entry[x])])
    ELSE rxr_pkt_entry_send(s, PktEntry(type, s.rx_entry[x].addr, "rx", x, 0, 0))

\* rxr_pkt_post_ctrl_or_queue for an RX entry: a control packet the
\* transport does not take now is posted by the progress engine
rxr_pkt_post_ctrl_or_queue_rx(s, x, type) ==
    Bind(rxr_pkt_post_ctrl_rx(s, x, type),
         LAMBDA s1 :
            IF s1.r = -FI_EAGAIN /\ ~s1.crashed
            THEN [s1 EXCEPT !.rx_entry[x].state = "RXR_RX_QUEUED_CTRL",
                            !.rx_entry[x].queued_ctrl = type,
                            !.ep.rx_entry_queued_list = Append(@, x),
                            !.r = 0]
            ELSE s1)

\* rxr_cq_handle_rx_error: the error entry of an RX entry, which is released
rxr_cq_handle_rx_error(s, x, err) ==
    Bind([s EXCEPT !.rx_cq = Append(@, CqEntry(s.rx_entry[x].op_context, -err, 0, 0)),
                   !.rx_list = Without(@, x),
                   !.ep.rx_entry_queued_list = Without(@, x)],
         LAMBDA s1 : rxr_release_rx_entry(s1, x))

\* rxr_pkt_handle_data_copied: the bytes of the packet are counted; when all
\* bytes of the message have been copied the receive completes, unless it is
\* cancelled, and under delivery-complete the RECEIPT is sent, after which
\* the RX entry is released
rxr_pkt_handle_data_copied(s, x, pkt, data_size) ==
    IF s.rx_entry[x].bytes_copied + data_size # s.rx_entry[x].total_len
    THEN [s EXCEPT !.rx_entry[x].bytes_copied = @ + data_size, !.r = 0]
    ELSE Bind([s EXCEPT !.rx_entry[x].bytes_copied = @ + data_size,
                        !.rx_list = Without(@, x),
                        !.rx_cq = IF "RXR_RECV_CANCEL" \in s.rx_entry[x].rxr_flags THEN @
                                  ELSE Append(@, CqEntry(s.rx_entry[x].op_context, 0,
                                                         pkt.connid, pkt.msg)),
                        !.r = 0],
              LAMBDA s1 :
                 IF "RXR_DELIVERY_COMPLETE_REQUESTED" \in s.rx_entry[x].rxr_flags
                 THEN Bind(rxr_pkt_post_ctrl_or_queue_rx(s1, x, RXR_RECEIPT_PKT),
                           LAMBDA s2 :
                              IF s2.r # 0 /\ ~s2.crashed
                              THEN rxr_cq_handle_rx_error(s2, x, s2.r)
                              ELSE s2)
                 ELSE rxr_release_rx_entry(s1, x))

\* rxr_read_post_local_read_or_queue: a read of the device from the packet
\* to the receive buffer, which is CUDA memory
rxr_read_post_local_read_or_queue(s, x, data_offset, data_size) ==
    [s EXCEPT !.ep.buf[s.rx_entry[x].op_context] = @ + data_size,
              !.trace = Append(@, Step("local_read", x, data_offset, data_size)),
              !.r = 0]

\* ofi_copy_to_iov: the bytes that fit in the buffer are copied
ofi_copy_to_iov(s, x, data_offset, data_size) ==
    [s EXCEPT !.ep.buf[s.rx_entry[x].op_context] =
                  @ + MIN(data_size, s.rx_entry[x].cq_len - data_offset),
              !.trace = Append(@, Step("ofi_copy_to_iov", x, data_offset, data_size))]

\* rxr_pkt_copy_data_to_rx_entry
rxr_pkt_copy_data_to_rx_entry(s, x, data_offset, pkt, data_size) ==
    IF data_size > 0 /\ s.rx_entry[x].cuda
    THEN Bind(rxr_read_post_local_read_or_queue(s, x, data_offset, data_size),
              LAMBDA s1 : rxr_pkt_handle_data_copied(s1, x, pkt, data_size))
    ELSE IF /\ "RXR_RECV_CANCEL" \notin s.rx_entry[x].rxr_flags
            /\ s.rx_entry[x].cq_len > data_offset
            /\ data_size > 0
    THEN Bind(ofi_copy_to_iov(s, x, data_offset, data_size),
              LAMBDA s1 : rxr_pkt_handle_data_copied(s1, x, pkt, data_size))
    ELSE rxr_pkt_handle_data_copied(s, x, pkt, data_size)

----------------------------------------------------------------------------
(* packets of a TX entry: REQ packets, DATA packets, queued packets *)

\* the sub-protocol of a message by its length: eager when one packet holds
\* it, medium up to efa_max_medium_msg_size, long-CTS above
efa_max_medium_msg_size == 3 * max_data_payload_size

ReqType(total_len) ==
    IF total_len <= max_data_payload_size THEN RXR_EAGER_MSGRTM_PKT
    ELSE IF total_len <= efa_max_medium_msg_size THEN RXR_MEDIUM_MSGRTM_PKT
    ELSE RXR_LONGCTS_MSGRTM_PKT

\* the REQ packet of a TX entry that carries the payload from offset on
ReqPkt(tx, id, offset) ==
    [PktEntry(ReqType(tx.total_len), tx.addr, "tx", id,
              MIN(tx.total_len - offset, max_data_payload_size), offset)
     EXCEPT !.flags = IF "FI_DELIVERY_COMPLETE" \in tx.fi_flags THEN {"dc"} ELSE {}]

\* the MEDIUM_RTM packets of a message, from offset on
RECURSIVE MediumPkts(_, _, _)
MediumPkts(tx, id, offset) ==
    IF offset >= tx.total_len THEN <<>>
    ELSE <<ReqPkt(tx, id, offset)>>
         \o MediumPkts(tx, id, offset + max_data_payload_size)

\* the packets of a burst are posted in order; r is 0, or the error of the
\* first packet the transport did not take: that packet and those after it
\* are left in rest
RECURSIVE post_burst(_, _, _)
post_burst(s, id, pkts) ==
    IF pkts = <<>> THEN [s EXCEPT !.rest = <<>>, !.r = 0]
    ELSE Bind(rxr_pkt_entry_send(s, Head(pkts)),
              LAMBDA s1 :
                 IF s1.crashed THEN s1
                 ELSE IF s1.r # 0 THEN [s1 EXCEPT !.rest = pkts]
                 ELSE Bind([s1 EXCEPT !.tx_entry[id].bytes_sent = @ + Head(pkts).len],
                           LAMBDA s2 : post_burst(s2, id, Tail(pkts))))

\* rxr_pkt_post_ctrl for a TX entry, the REQ packets of its message: one
\* EAGER_RTM or LONGCTS_RTM packet, or the MEDIUM_RTM packets of the bytes
\* that follow bytes_sent.  When the transport does not take a MEDIUM_RTM
\* packet, r is its error and the packets from that one on have not been
\* built: bytes_sent says where they start.
rxr_pkt_post_ctrl_tx(s, id) ==
    Bind(IF ReqType(s.tx_entry[id].total_len) # RXR_MEDIUM_MSGRTM_PKT
         THEN IF s.tx_entry[id].bytes_sent > 0 THEN [s EXCEPT !.r = 0]
              ELSE post_burst(s, id, <<ReqPkt(s.tx_entry[id], id, 0)>>)
         ELSE post_burst(s, id, MediumPkts(s.tx_entry[id], id, s.tx_entry[id].bytes_sent)),
         LAMBDA s1 : IF s1.crashed THEN s1 ELSE [s1 EXCEPT !.rest = <<>>])

\* rxr_pkt_post_ctrl_or_queue for a TX entry
rxr_pkt_post_ctrl_or_queue_tx(s, id) ==
    Bind(rxr_pkt_post_ctrl_tx(s, id),
         LAMBDA s1 :
            IF s1.r = -FI_EAGAIN /\ ~s1.crashed
            THEN [s1 EXCEPT !.tx_entry[id].state = "RXR_TX_QUEUED_CTRL",
                            !.tx_entry[id].queued_ctrl = ReqType(s1.tx_entry[id].total_len),
                            !.ep.tx_entry_queued_list = Append(@, id),
                            !.r = 0]
            ELSE s1)

\* ofi_div_ceil
ofi_div_ceil(a, b) == (a + b - 1) \div b

\* rxr_ep_peer_init_tx: the tx state of a peer, made at the first long
\* message to it
rxr_ep_peer_init_tx(peer) ==
    [peer EXCEPT !.tx_init = TRUE, !.tx_credits = tx_max_credits]

\* the credits a TX entry asks for: its share of the credits of the peer,
\* no more than the packets of its message and no less than tx_min_credits
CreditRequest(peer, tx) ==
    MAX(MIN(ofi_div_ceil(peer.tx_credits, peer.tx_pending + 1),
            ofi_div_ceil(tx.total_len, max_data_payload_size)),
        tx_min_credits)

\* a credit request that takes its credits from the peer whether the peer
\* has that many or not
rxr_ep_set_tx_credit_request_unguarded(s, id) ==
    Bind(IF rxr_ep_get_peer(s, s.tx_entry[id].addr).tx_init THEN s
         ELSE [s EXCEPT !.conn[s.tx_entry[id].addr].rdm_peer = rxr_ep_peer_init_tx(@)],
         LAMBDA s1 :
            Bind(CreditRequest(rxr_ep_get_peer(s1, s1.tx_entry[id].addr), s1.tx_entry[id]),
                 LAMBDA credit_request :
                    [Log(s1, Step("credit_request", credit_request, s1.tx_entry[id].addr,
                                  rxr_ep_get_peer(s1, s1.tx_entry[id].addr).tx_credits))
                     EXCEPT !.tx_entry[id].credit_request = credit_request,
                            !.conn[s1.tx_entry[id].addr].rdm_peer.tx_credits =
                                @ - credit_request,
                            !.r = IF credit_request = 0 THEN -FI_EAGAIN ELSE 0]))

\* rxr_ep_set_tx_credit_request: the tx state of the peer is made if it has
\* none; the TX entry asks for its credits, which the peer gives when it has
\* that many; a request of no credit is refused with EAGAIN
rxr_ep_set_tx_credit_request(s, id) ==
    Bind(IF rxr_ep_get_peer(s, s.tx_entry[id].addr).tx_init THEN s
         ELSE [s EXCEPT !.conn[s.tx_entry[id].addr].rdm_peer = rxr_ep_peer_init_tx(@)],
         LAMBDA s1 :
            Bind(CreditRequest(rxr_ep_get_peer(s1, s1.tx_entry[id].addr), s1.tx_entry[id]),
                 LAMBDA credit_request :
                    [Log(s1, Step("credit_request", credit_request, s1.tx_entry[id].addr,
                                  rxr_ep_get_peer(s1, s1.tx_entry[id].addr).tx_credits))
                     EXCEPT !.tx_entry[id].credit_request = credit_request,
                            !.conn[s1.tx_entry[id].addr].rdm_peer.tx_credits =
                                IF @ >= credit_request THEN @ - credit_request ELSE @,
                            !.r = IF credit_request = 0 THEN -FI_EAGAIN ELSE 0]))

\* rxr_msg_generic_send: a TX entry is made for the message, which gets the
\* next msg_id of the peer (a long-CTS message also its credit request),
\* and its REQ packets are posted.  A message that
\* has more than one REQ packet is queued for the progress engine when the
\* transport does not take them all; when the only REQ packet is not taken
\* the TX entry is released and the error is the result of the call.
rxr_msg_generic_send(s, msg) ==
    Bind(rxr_ep_alloc_tx_entry(s, msg.addr),
         LAMBDA s1 :
            IF s1.r = 0 THEN [s1 EXCEPT !.r = -FI_EAGAIN]
            ELSE Bind(s1.r,
                      LAMBDA id :
                         Bind([s1 EXCEPT
                                  !.tx_entry[id] =
                                      [rxr_tx_entry_init(msg) EXCEPT
                                          !.msg_id = rxr_ep_get_peer(s1, msg.addr).next_msg_id],
                                  !.conn[msg.addr].rdm_peer.next_msg_id = @ + 1],
                              LAMBDA s2 :
                                 Bind(IF ReqType(msg.len) = RXR_MEDIUM_MSGRTM_PKT
                                      THEN rxr_pkt_post_ctrl_or_queue_tx(s2, id)
                                      ELSE IF ReqType(msg.len) = RXR_LONGCTS_MSGRTM_PKT
                                      THEN Bind(rxr_ep_set_tx_credit_request(s2, id),
                                                LAMBDA s21 :
                                                   IF s21.r # 0 THEN s21
                                                   ELSE rxr_pkt_post_ctrl_tx(s21, id))
                                      ELSE rxr_pkt_post_ctrl_tx(s2, id),
                                      LAMBDA s3 :
                                         IF s3.r = 0 \/ s3.crashed THEN s3
                                         ELSE [rxr_release_tx_entry(s3, id) EXCEPT
                                                  !.conn[msg.addr].rdm_peer.next_msg_id
                                                      = @ - 1]))))

\* rxr_pkt_post_data: one DATA packet of the bytes that follow bytes_sent,
\* as many as a packet holds and the window allows; when the packet is
\* posted the window shrinks by its bytes
\* a DATA post that fills the packet whatever the window is
rxr_pkt_post_data_full(s, id) ==
    Bind(rxr_pkt_entry_send(
             s, PktEntry(RXR_DATA_PKT, s.tx_entry[id].addr, "tx", id,
                         MIN(s.tx_entry[id].total_len - s.tx_entry[id].bytes_sent,
                             max_data_payload_size),
                         s.tx_entry[id].bytes_sent)),
         LAMBDA s1 :
            IF s1.r # 0 \/ s1.crashed THEN s1
            ELSE Bind(s1.ep.wire[Len(s1.ep.wire)].len,
                      LAMBDA len :
                         [s1 EXCEPT !.tx_entry[id].bytes_sent = @ + len,
                                    !.tx_entry[id].window = MAX(@ - len, 0)]))

rxr_pkt_post_data(s, id) ==
    Bind(rxr_pkt_entry_send(
             s, PktEntry(RXR_DATA_PKT, s.tx_entry[id].addr, "tx", id,
                         MIN(MIN(s.tx_entry[id].total_len - s.tx_entry[id].bytes_sent,
                                 max_data_payload_size),
                             s.tx_entry[id].window),
                         s.tx_entry[id].bytes_sent)),
         LAMBDA s1 :
            IF s1.r # 0 \/ s1.crashed THEN s1
            ELSE Bind(s1.ep.wire[Len(s1.ep.wire)].len,
                      LAMBDA len :
                         [s1 EXCEPT !.tx_entry[id].bytes_sent = @ + len,
                                    !.tx_entry[id].window = @ - len]))

\* the queued packets of a TX ("tx") or RX ("rx") entry
QueuedPkts(s, owner, id) ==
    IF owner = "tx" THEN s.tx_entry[id].queued_pkts ELSE s.rx_entry[id].queued_pkts

SetQueuedPkts(s, owner, id, pkts) ==
    IF owner = "tx" THEN [s EXCEPT !.tx_entry[id].queued_pkts = pkts]
    ELSE [s EXCEPT !.rx_entry[id].queued_pkts = pkts]

\* rxr_ep_send_queued_pkts
RECURSIVE rxr_ep_send_queued_pkts(_, _, _)
rxr_ep_send_queued_pkts(s, owner, id) ==
    IF QueuedPkts(s, owner, id) = <<>> THEN [s EXCEPT !.r = 0]
    ELSE IF use_shm /\ rxr_ep_get_peer(s, Head(QueuedPkts(s, owner, id)).addr).is_local
    THEN Bind(SetQueuedPkts(s, owner, id, Tail(QueuedPkts(s, owner, id))),
              LAMBDA s1 : rxr_ep_send_queued_pkts(s1, owner, id))
    ELSE Bind(rxr_pkt_entry_send(s, Head(QueuedPkts(s, owner, id))),
              LAMBDA s1 :
                 IF s1.r # 0 \/ s1.crashed THEN s1
                 ELSE Bind(SetQueuedPkts(s1, owner, id, Tail(QueuedPkts(s1, owner, id))),
                           LAMBDA s2 : rxr_ep_send_queued_pkts(s2, owner, id)))

----------------------------------------------------------------------------
(* HANDSHAKE packets, RDMA reads, and the completions of posted packets *)

\* rxr_cq_handle_tx_completion: the completion of a TX entry is written and
\* the entry, which leaves the tx_pending_list, released
rxr_cq_handle_tx_completion(s, t, connid) ==
    Bind([s EXCEPT !.tx_cq = Append(@, CqEntry(t, 0, connid, s.tx_entry[t].op_context)),
                   !.ep.tx_pending_list = Without(@, t),
                   !.trace = Append(@, Step("tx_completion", s.tx_entry[t], t, 0))],
         LAMBDA s1 : rxr_release_tx_entry(s1, t))

\* the packets on the wire a released TX entry owned have no owner
Disown(wire, t) ==
    [k \in DOMAIN wire |->
        IF wire[k].owner = "tx" /\ wire[k].id = t THEN [wire[k] EXCEPT !.owner = "none"]
        ELSE wire[k]]

\* rxr_cq_handle_tx_error: the error entry of a TX entry, which leaves the
\* lists of the endpoint and is released with its queued packets
rxr_cq_handle_tx_error(s, t, err) ==
    Bind([s EXCEPT !.tx_cq = Append(@, CqEntry(t, -err, 0, s.tx_entry[t].op_context)),
                   !.ep.tx_entry_queued_list = Without(@, t),
                   !.ep.tx_pending_list = Without(@, t),
                   !.ep.read_pending_list = Without(@, t),
                   !.ep.wire = Disown(@, t),
                   !.tx_entry[t].queued_pkts = <<>>],
         LAMBDA s1 : rxr_release_tx_entry(s1, t))

\* rxr_pkt_post_handshake
rxr_pkt_post_handshake(s, addr) ==
    Bind(rxr_pkt_entry_send(s, PktEntry(RXR_HANDSHAKE_PKT, addr, "peer", addr, 0, 0)),
         LAMBDA s1 :
            IF s1.r # 0 \/ s1.crashed THEN s1
            ELSE [s1 EXCEPT !.conn[addr].rdm_peer.flags =
                                @ \cup {"RXR_PEER_HANDSHAKE_SENT"}])

\* rxr_pkt_post_handshake_or_queue: a HANDSHAKE the transport does not take
\* now is posted by the progress engine; another failure is ignored
rxr_pkt_post_handshake_or_queue(s, addr) ==
    Bind(rxr_pkt_post_handshake(s, addr),
         LAMBDA s1 :
            IF s1.crashed THEN s1
            ELSE IF s1.r = -FI_EAGAIN
            THEN [s1 EXCEPT !.conn[addr].rdm_peer.flags =
                                @ \cup {"RXR_PEER_HANDSHAKE_QUEUED"},
                            !.ep.peer_queued_list = Append(@, addr),
                            !.r = 0]
            ELSE [s1 EXCEPT !.r = 0])

\* a read post that counts the bytes of a segment the transport refused as
\* submitted
RECURSIVE rxr_read_post_skip(_, _)
rxr_read_post_skip(s, id) ==
    IF s.tx_entry[id].bytes_submitted >= s.tx_entry[id].total_len THEN [s EXCEPT !.r = 0]
    ELSE Bind(MIN(s.tx_entry[id].total_len - s.tx_entry[id].bytes_submitted,
                  efa_read_segment_size),
              LAMBDA segsize :
                 Bind(fi_post(s, PktEntry(0, s.tx_entry[id].addr, "tx", id, segsize,
                                          s.tx_entry[id].bytes_submitted)),
                      LAMBDA s1 :
                         IF s1.r # 0
                         THEN [s1 EXCEPT !.tx_entry[id].bytes_submitted = @ + segsize]
                         ELSE Bind([rxr_ep_inc_tx_pending(s1, s1.tx_entry[id].addr)
                                    EXCEPT !.tx_entry[id].bytes_submitted = @ + segsize],
                                   LAMBDA s2 : rxr_read_post_skip(s2, id))))

\* rxr_read_post: the reads of the segments that follow bytes_submitted.  The
\* packet entry of a read is its context; its type is 0.
RECURSIVE rxr_read_post(_, _)
rxr_read_post(s, id) ==
    IF s.tx_entry[id].bytes_submitted >= s.tx_entry[id].total_len THEN [s EXCEPT !.r = 0]
    ELSE Bind(IF rxr_ep_get_peer(s, s.tx_entry[id].addr).is_local
              THEN s.tx_entry[id].total_len - s.tx_entry[id].bytes_submitted
              ELSE MIN(s.tx_entry[id].total_len - s.tx_entry[id].bytes_submitted,
                       efa_read_segment_size),
              LAMBDA segsize :
                 Bind(fi_post(s, PktEntry(0, s.tx_entry[id].addr, "tx", id, segsize,
                                          s.tx_entry[id].bytes_submitted)),
                      LAMBDA s1 :
                         IF s1.r # 0 THEN s1
                         ELSE Bind([(IF rxr_ep_get_peer(s1, s1.tx_entry[id].addr).is_local
                                     THEN s1
                                     ELSE rxr_ep_inc_tx_pending(s1, s1.tx_entry[id].addr))
                                    EXCEPT !.tx_entry[id].bytes_submitted = @ + segsize],
                                   LAMBDA s2 : rxr_read_post(s2, id))))

\* a post of reads that reports success when the transport answered
\* -FI_EAGAIN, without queueing the entry
rxr_read_post_or_queue_drop(s, id) ==
    Bind(rxr_read_post(s, id),
         LAMBDA s1 : IF s1.r = -FI_EAGAIN THEN [s1 EXCEPT !.r = 0] ELSE s1)

\* rxr_read_post_or_queue
rxr_read_post_or_queue(s, id) ==
    Bind(rxr_read_post(s, id),
         LAMBDA s1 :
            IF s1.r = -FI_EAGAIN
            THEN [s1 EXCEPT !.ep.read_pending_list = Append(@, id), !.r = 0]
            ELSE s1)

\* rxr_read_handle_error
rxr_read_handle_error(s, id, ret) == rxr_cq_handle_tx_error(s, id, ret)

\* rxr_pkt_entry_release_tx: a packet that was sent again after the receiver
\* was not ready ends the backoff of its peer
rxr_pkt_entry_release_tx(s, pkt_entry) ==
    IF pkt_entry.state = "RXR_PKT_ENTRY_RNR_RETRANSMIT"
    THEN [s EXCEPT !.conn[pkt_entry.addr].rdm_peer.rnr_timeout = 0,
                   !.conn[pkt_entry.addr].rdm_peer.flags = @ \ {"RXR_PEER_IN_BACKOFF"}]
    ELSE s

\* a send completion handler that completes a delivery-complete TX entry
\* as soon as all its bytes are acknowledged, its RECEIPT come or not
rxr_pkt_handle_send_completion_noreceipt(s, pkt_entry) ==
    Bind(IF rxr_ep_get_peer(s, pkt_entry.addr).is_local THEN s
         ELSE rxr_ep_dec_tx_pending(s, pkt_entry.addr),
         LAMBDA s0 :
            Bind(rxr_pkt_entry_release_tx(s0, pkt_entry),
                 LAMBDA s1 :
                    IF pkt_entry.owner = "rx"
                    THEN IF /\ pkt_entry.type = RXR_RECEIPT_PKT
                            /\ s1.rx_entry[pkt_entry.id].state # "RXR_RX_FREE"
                         THEN rxr_release_rx_entry(s1, pkt_entry.id)
                         ELSE s1
                    ELSE IF pkt_entry.owner # "tx" THEN s1
                    ELSE IF s1.tx_entry[pkt_entry.id].bytes_acked + pkt_entry.len
                                < s1.tx_entry[pkt_entry.id].total_len
                    THEN [s1 EXCEPT !.tx_entry[pkt_entry.id].bytes_acked = @ + pkt_entry.len]
                    ELSE Bind([s1 EXCEPT !.tx_entry[pkt_entry.id].bytes_acked
                                             = @ + pkt_entry.len],
                              LAMBDA s2 : rxr_cq_handle_tx_completion(s2, pkt_entry.id, 0))))

\* rxr_pkt_handle_send_completion: the device has sent the packet (or done
\* the read).  Its bytes are acknowledged to the TX entry that owns it,
\* which completes when all its bytes are, under delivery-complete only
\* after its RECEIPT has come; the RX entry of a RECEIPT is released.
rxr_pkt_handle_send_completion(s, pkt_entry) ==
    Bind(IF rxr_ep_get_peer(s, pkt_entry.addr).is_local THEN s
         ELSE rxr_ep_dec_tx_pending(s, pkt_entry.addr),
         LAMBDA s0 :
            Bind(rxr_pkt_entry_release_tx(s0, pkt_entry),
                 LAMBDA s1 :
                    IF pkt_entry.owner = "rx"
                    THEN IF /\ pkt_entry.type = RXR_RECEIPT_PKT
                            /\ s1.rx_entry[pkt_entry.id].state # "RXR_RX_FREE"
                         THEN rxr_release_rx_entry(s1, pkt_entry.id)
                         ELSE s1
                    ELSE IF pkt_entry.owner # "tx" THEN s1
                    ELSE IF s1.tx_entry[pkt_entry.id].bytes_acked + pkt_entry.len
                                < s1.tx_entry[pkt_entry.id].total_len
                    THEN [s1 EXCEPT !.tx_entry[pkt_entry.id].bytes_acked = @ + pkt_entry.len]
                    ELSE IF /\ "FI_DELIVERY_COMPLETE" \in s1.tx_entry[pkt_entry.id].fi_flags
                            /\ "RXR_RECEIPT_RECEIVED"
                                   \notin s1.tx_entry[pkt_entry.id].rxr_flags
                    THEN [s1 EXCEPT !.tx_entry[pkt_entry.id].bytes_acked = @ + pkt_entry.len]
                    ELSE Bind([s1 EXCEPT !.tx_entry[pkt_entry.id].bytes_acked
                                             = @ + pkt_entry.len],
                              LAMBDA s2 : rxr_cq_handle_tx_completion(s2, pkt_entry.id, 0))))

\* rxr_pkt_handle_send_error with the receiver not ready: the packet joins
\* the queued packets of its entry, the entry the queued list of the
\* endpoint, and the peer is in backoff until its timer expires: a peer
\* that was not in backoff joins the backoff list of the endpoint, and its
\* rnr_timeout is scheduled (1 stands for a timeout that is not 0)
rxr_pkt_handle_send_error(s, pkt_entry) ==
    Bind(IF rxr_ep_get_peer(s, pkt_entry.addr).is_local THEN s
         ELSE rxr_ep_dec_tx_pending(s, pkt_entry.addr),
         LAMBDA s1 :
            IF pkt_entry.owner = "rx"
            THEN [s1 EXCEPT
                     !.ep.peer_backoff_list =
                         IF "RXR_PEER_IN_BACKOFF" \in rxr_ep_get_peer(s1, pkt_entry.addr).flags
                         THEN @
                         ELSE Append(@, pkt_entry.addr),
                     !.conn[pkt_entry.addr].rdm_peer.rnr_timeout = 1,
                     !.conn[pkt_entry.addr].rdm_peer.flags =
                         @ \cup {"RXR_PEER_IN_BACKOFF", "RXR_PEER_BACKED_OFF"},
                     !.rx_entry[pkt_entry.id].queued_pkts =
                         Append(@, [pkt_entry EXCEPT !.state = "RXR_PKT_ENTRY_RNR_RETRANSMIT"]),
                     !.ep.rx_entry_queued_list =
                         IF \E k \in DOMAIN @ : @[k] = pkt_entry.id THEN @
                         ELSE Append(@, pkt_entry.id)]
            ELSE IF pkt_entry.owner # "tx" THEN s1
            ELSE [s1 EXCEPT
                     !.ep.peer_backoff_list =
                         IF "RXR_PEER_IN_BACKOFF" \in rxr_ep_get_peer(s1, pkt_entry.addr).flags
                         THEN @
                         ELSE Append(@, pkt_entry.addr),
                     !.conn[pkt_entry.addr].rdm_peer.rnr_timeout = 1,
                     !.conn[pkt_entry.addr].rdm_peer.flags =
                         @ \cup {"RXR_PEER_IN_BACKOFF", "RXR_PEER_BACKED_OFF"},
                     !.tx_entry[pkt_entry.id].queued_pkts =
                         Append(@, [pkt_entry EXCEPT !.state = "RXR_PKT_ENTRY_RNR_RETRANSMIT"]),
                     !.tx_entry[pkt_entry.id].state =
                         IF @ = "RXR_TX_SEND" THEN "RXR_TX_QUEUED_DATA_RNR"
                         ELSE IF @ = "RXR_TX_REQ" THEN "RXR_TX_QUEUED_REQ_RNR"
                         ELSE @,
                     !.ep.tx_pending_list = Without(@, pkt_entry.id),
                     !.ep.tx_entry_queued_list =
                         IF \E k \in DOMAIN @ : @[k] = pkt_entry.id THEN @
                         ELSE Append(@, pkt_entry.id)])

\* a handler reads a TX or RX entry that has been released: the memory is
\* back in the pool, and the process goes on or dies
FreedRead(s, ub) ==
    IF ub = "crash" THEN [Crash(s) EXCEPT !.freed_read = TRUE]
    ELSE [s EXCEPT !.freed_read = TRUE]

\* an eager message: it completes the first posted receive, or joins the
\* unexpected list
rxr_pkt_handle_rtm_recv(s, pkt) ==
    IF s.rx_list = <<>>
    THEN [s EXCEPT !.rx_unexp_list = Append(@, pkt)]
    ELSE LET x == Head(s.rx_list)
             s1 == [s EXCEPT !.rx_list = Tail(@),
                             !.rx_cq = Append(@, CqEntry(s.rx_entry[x].op_context, 0,
                                                         pkt.connid, pkt.msg))]
         IN rxr_release_rx_entry(s1, x)

\* the first posted receive no message has matched yet, 0 when there is none
MatchRx(s) ==
    LET init == {k \in DOMAIN s.rx_list : s.rx_entry[s.rx_list[k]].state = "RXR_RX_INIT"}
    IN IF init = {} THEN 0 ELSE s.rx_list[CHOOSE k \in init : \A j \in init : k <= j]

\* rxr_pkt_proc_matched_rtm of a long-CTS RTM: the RX entry takes the
\* message's length, the sender's send_id and credit request, and the first
\* bytes of the payload, which the packet carries; the receiver answers with a
\* CTS
rxr_pkt_proc_matched_rtm(s, x, pkt, addr) ==
    Bind([s EXCEPT !.rx_entry[x].addr = addr,
                   !.rx_entry[x].state = "RXR_RX_RECV",
                   !.rx_entry[x].total_len = pkt.msg_length,
                   !.rx_entry[x].tx_id = pkt.send_id,
                   !.rx_entry[x].msg_id = pkt.msg_id,
                   !.rx_entry[x].credit_request = pkt.credit_request,
                   !.rx_entry[x].bytes_received = pkt.len,
                   !.rx_entry[x].rxr_flags =
                       IF "dc" \in pkt.flags
                       THEN @ \cup {"RXR_DELIVERY_COMPLETE_REQUESTED"} ELSE @,
                   !.conn[addr].rdm_peer.rx_entry_list = @ \cup {x}],
         LAMBDA s1 :
            Bind(rxr_pkt_copy_data_to_rx_entry(s1, x, 0, pkt, pkt.len),
                 LAMBDA s2 :
                    IF pkt.len = pkt.msg_length \/ s2.crashed THEN s2
                    ELSE Bind(rxr_pkt_post_ctrl_or_queue_rx(s2, x, RXR_CTS_PKT),
                              LAMBDA s3 : IF s3.r # 0 /\ ~s3.crashed
                                          THEN rxr_cq_handle_rx_error(s3, x, s3.r)
                                          ELSE s3)))

\* a long-CTS RTM: it is matched with the first posted receive, or joins the
\* unexpected list
rxr_pkt_handle_longcts_rtm_recv(s, pkt, addr) ==
    IF MatchRx(s) = 0 THEN [s EXCEPT !.rx_unexp_list = Append(@, pkt)]
    ELSE rxr_pkt_proc_matched_rtm(s, MatchRx(s), pkt, addr)

\* DATA and READRSP: the data goes to the RX entry recv_id names; when the
\* window of the last CTS is used up and bytes are left, the receiver sends
\* the next CTS
rxr_pkt_handle_data_recv(s, pkt, ub) ==
    IF s.rx_entry[pkt.id].state = "RXR_RX_FREE" THEN FreedRead(s, ub)
    ELSE Bind([s EXCEPT !.rx_entry[pkt.id].bytes_received = @ + pkt.len,
                        !.rx_entry[pkt.id].window = MAX(@ - pkt.len, 0)],
              LAMBDA s1 :
                 Bind(rxr_pkt_copy_data_to_rx_entry(s1, pkt.id, pkt.offset, pkt, pkt.len),
                      LAMBDA s2 :
                         IF \/ s1.rx_entry[pkt.id].bytes_received
                                   >= s1.rx_entry[pkt.id].total_len
                            \/ s1.rx_entry[pkt.id].window > 0
                            \/ s2.crashed
                         THEN s2
                         ELSE Bind(rxr_pkt_post_ctrl_or_queue_rx(s2, pkt.id, RXR_CTS_PKT),
                                   LAMBDA s3 : IF s3.r # 0 /\ ~s3.crashed
                                               THEN rxr_cq_handle_rx_error(s3, pkt.id, s3.r)
                                               ELSE s3)))

\* CTS, EOR and RECEIPT: the TX entry send_id names may send recv_length
\* more bytes in DATA packets (CTS) or completes (EOR; RECEIPT, once the
\* device has completed all its packets)
rxr_pkt_handle_tx_ctrl_recv(s, pkt, ub) ==
    LET t == pkt.id
    IN IF s.tx_entry[t].state = "RXR_TX_FREE" THEN FreedRead(s, ub)
       ELSE IF pkt.type = RXR_CTS_PKT
       THEN [s EXCEPT !.tx_entry[t].state = "RXR_TX_SEND",
                      !.tx_entry[t].rx_id = pkt.send_id,
                      !.tx_entry[t].window = pkt.recv_length,
                      !.ep.tx_pending_list =
                          IF pkt.recv_length > 0 /\ \A k \in DOMAIN @ : @[k] # t
                          THEN Append(@, t) ELSE @]
       ELSE IF pkt.type = RXR_RECEIPT_PKT
       THEN Bind([s EXCEPT !.tx_entry[t].rxr_flags = @ \cup {"RXR_RECEIPT_RECEIVED"}],
                 LAMBDA s1 :
                    IF s1.tx_entry[t].bytes_acked < s1.tx_entry[t].total_len THEN s1
                    ELSE rxr_cq_handle_tx_completion(s1, t, pkt.connid))
       ELSE rxr_cq_handle_tx_completion(s, t, pkt.connid)

\* HANDSHAKE
rxr_pkt_handle_handshake_recv(s, pkt, addr) ==
    [s EXCEPT !.conn[addr].rdm_peer.flags = @ \cup {"RXR_PEER_HANDSHAKE_RECEIVED"}]

\* the handler of the packet's type
rxr_pkt_proc_received(s, pkt, addr, ub) ==
    IF pkt.type = RXR_LONGCTS_MSGRTM_PKT THEN rxr_pkt_handle_longcts_rtm_recv(s, pkt, addr)
    ELSE IF pkt.type >= RXR_REQ_PKT_BEGIN THEN rxr_pkt_handle_rtm_recv(s, pkt)
    ELSE IF pkt.type \in {RXR_DATA_PKT, RXR_READRSP_PKT} THEN rxr_pkt_handle_data_recv(s, pkt, ub)
    ELSE IF pkt.type = RXR_HANDSHAKE_PKT THEN rxr_pkt_handle_handshake_recv(s, pkt, addr)
    ELSE rxr_pkt_handle_tx_ctrl_recv(s, pkt, ub)

\* rxr_pkt_handle_recv_completion.  addr is the peer the packet resolves to.
\* A packet whose connid differs from the connid of that peer is dropped;
\* a REQ packet with the raw address header of an endpoint that is neither
\* that peer nor the one it replaced announces a new peer, whose address is
\* inserted; a packet of no peer is dropped unless it announces one.
rxr_pkt_handle_recv_completion(s, pkt, addr, ub) ==
    LET connid == rxr_pkt_connid_hdr(pkt)
        announces == pkt.type >= RXR_REQ_PKT_BEGIN /\ "RXR_REQ_OPT_RAW_ADDR_HDR" \in pkt.flags
        stale == /\ addr # FI_ADDR_NOTAVAIL
                 /\ connid # NoConnid
                 /\ connid # s.conn[addr].ep_addr.qkey
    IN IF addr # FI_ADDR_NOTAVAIL /\ ~stale
       THEN rxr_pkt_proc_received(s, pkt, addr, ub)
       ELSE IF announces /\ (addr = FI_ADDR_NOTAVAIL \/ connid # s.conn[addr].rdm_peer.prev_qkey)
       THEN Bind(efa_av_insert_one(s, pkt.raw_addr, "none", NullEntry),
                 LAMBDA s1 :
                    IF s1.r = FI_ADDR_NOTAVAIL \/ s1.crashed THEN s1
                    ELSE rxr_pkt_proc_received(s1, pkt, s1.r, ub))
       ELSE s

\* rdm_ep_poll_ibv_cq, one IBV_WC_RECV completion: slid is the AHN and src_qp
\* the QPN of the sender
rdm_ep_poll_ibv_cq(s, pkt, ub) ==
    LET addr == efa_ahn_qpn_to_addr(s, ahn_of(pkt.gid), pkt.qpn)
    IN rxr_pkt_handle_recv_completion(s, pkt, addr, ub)

----------------------------------------------------------------------------
(* rxr_ep_progress_internal *)

\* the code that follows, unless the call has returned or the process died
Go(v, Op(_)) == Bind(v, LAMBDA x : IF x.crashed \/ x.next # "go" THEN x ELSE Op(x))

InBackoff(s, addr) == "RXR_PEER_IN_BACKOFF" \in rxr_ep_get_peer(s, addr).flags

----------------------------------------------------------------------------
(* packet entries of the receive pools: allocation, release, clones, and   *)
(* the receive buffers posted to the lower endpoints                       *)

\* ofi_buf_free: the entry joins the free list of its pool; an entry that
\* is in the free list already corrupts the list.  What the fields of a
\* freed entry hold is not kept: type and next are written by the next
\* allocation, and addr, which the allocation does not write, is read as
\* stale memory (PktAddr)
ofi_buf_free(s, p) ==
    IF s.ep.pkt[p].free THEN Crash(Log(s, Step("ofi_buf_free", p, 0, 1)))
    ELSE Log([s EXCEPT !.ep.pkt[p] = [FreePkt EXCEPT !.state = s.ep.pkt[p].state]],
             Step("ofi_buf_free", p, 0, 0))

\* rxr_pkt_entry_alloc: r is the entry ofi_buf_alloc_ex took from the free
\* list of the pool, 0 (NULL) when the pool has none.  addr is not written.
rxr_pkt_entry_alloc(s, pkt_pool) ==
    IF \A p \in pkt_pool : ~s.ep.pkt[p].free THEN [s EXCEPT !.r = 0]
    ELSE Bind(CHOOSE p \in pkt_pool :
                 s.ep.pkt[p].free /\ \A q \in pkt_pool : s.ep.pkt[q].free => p <= q,
              LAMBDA p :
                 [s EXCEPT !.ep.pkt[p].free = FALSE,
                           !.ep.pkt[p].at = "rx",
                           !.ep.pkt[p].type = "RXR_PKT_ENTRY_POSTED",
                           !.ep.pkt[p].state = "RXR_PKT_ENTRY_IN_USE",
                           !.ep.pkt[p].next = 0,
                           !.trace = Append(@, Step("ofi_buf_alloc", p, 0,
                                                    IF s.ep.pkt[p].state = "RXR_PKT_ENTRY_FREE"
                                                    THEN 0 ELSE 1)),
                           !.r = p])

\* pkt_entry->addr as the code reads it: what a completion wrote, or what
\* the memory of an entry no completion has written holds (stale)
PktAddr(s, p) == IF s.ep.pkt[p].addr = UninitAddr THEN s.stale ELSE s.ep.pkt[p].addr

\* rxr_ep_get_peer returns a peer for the address
PeerKnown(s, addr) == addr \in AvIndex /\ s.util_av[addr] # NoAddr

\* rxr_pkt_entry_release_rx.  The assertions are compiled in debug builds
\* only; peer->is_local of a NULL peer destroys the process in every build
rxr_pkt_entry_release_rx(s, p) ==
    IF s.ep.pkt[p].next # 0 /\ s.ub = "crash" THEN Crash(s)
    ELSE IF s.ep.pkt[p].type # "RXR_PKT_ENTRY_POSTED"
    THEN ofi_buf_free([s EXCEPT !.ep.pkt[p].state = "RXR_PKT_ENTRY_FREE"], p)
    ELSE IF ~PeerKnown(s, PktAddr(s, p)) THEN Crash(s)
    ELSE IF rxr_ep_get_peer(s, PktAddr(s, p)).is_local
    THEN ofi_buf_free([s EXCEPT !.ep.rx_bufs_shm_to_post = @ + 1,
                                !.ep.pkt[p].state = "RXR_PKT_ENTRY_FREE"], p)
    ELSE ofi_buf_free([s EXCEPT !.ep.rx_bufs_efa_to_post = @ + 1,
                                !.ep.pkt[p].state = "RXR_PKT_ENTRY_FREE"], p)

\* rxr_pkt_entry_copy
rxr_pkt_entry_copy(s, dest, src, new_entry_type) ==
    [s EXCEPT !.ep.pkt[dest].addr = s.ep.pkt[src].addr,
              !.ep.pkt[dest].type = new_entry_type,
              !.ep.pkt[dest].state = "RXR_PKT_ENTRY_IN_USE",
              !.ep.pkt[dest].next = 0]

\* rxr_pkt_entry_release_cloned: pkt_entry->next is read after ofi_buf_free
\* of the entry; the read of the freed entry gives the next entry the entry
\* had, or destroys the process
RECURSIVE rxr_pkt_entry_release_cloned(_, _)
rxr_pkt_entry_release_cloned(s, p) ==
    IF p = 0 \/ s.crashed THEN s
    ELSE Bind(ofi_buf_free([s EXCEPT !.ep.pkt[p].state = "RXR_PKT_ENTRY_FREE"], p),
              LAMBDA s1 :
                 Bind(FreedRead(Log(s1, Step("read_after_free", p, 0, 0)), s1.ub),
                      LAMBDA s2 : rxr_pkt_entry_release_cloned(s2, s.ep.pkt[p].next)))

\* the loop of rxr_pkt_entry_clone over the entries linked behind src
RECURSIVE CloneLoop(_, _, _, _, _, _)
CloneLoop(s, pkt_pool, root, dst, src, new_entry_type) ==
    IF s.crashed THEN s
    ELSE IF s.ep.pkt[src].next = 0 THEN [s EXCEPT !.r = root]
    ELSE Bind(rxr_pkt_entry_alloc(s, pkt_pool),
              LAMBDA s1 :
                 IF s1.r = 0
                 THEN [rxr_pkt_entry_release_cloned(s1, root) EXCEPT !.r = 0]
                 ELSE CloneLoop(rxr_pkt_entry_copy([s1 EXCEPT !.ep.pkt[dst].next = s1.r],
                                                   s1.r, s.ep.pkt[src].next, new_entry_type),
                                pkt_pool, root, s1.r, s.ep.pkt[src].next, new_entry_type))

\* a clone that gives the address of its entry although the pool had none
rxr_pkt_entry_clone_null(s, pkt_pool, src, new_entry_type) ==
    Bind(rxr_pkt_entry_alloc(s, pkt_pool),
         LAMBDA s1 :
            IF s1.r = 0 THEN [s1 EXCEPT !.r = src]
            ELSE CloneLoop(rxr_pkt_entry_copy(s1, s1.r, src, new_entry_type),
                           pkt_pool, s1.r, s1.r, src, new_entry_type))

\* rxr_pkt_entry_clone: r is the first entry of the clone, 0 when the pool
\* has too few entries
rxr_pkt_entry_clone(s, pkt_pool, src, new_entry_type) ==
    Bind(rxr_pkt_entry_alloc(s, pkt_pool),
         LAMBDA s1 :
            IF s1.r = 0 THEN s1
            ELSE CloneLoop(rxr_pkt_entry_copy(s1, s1.r, src, new_entry_type),
                           pkt_pool, s1.r, s1.r, src, new_entry_type))

\* rxr_pkt_get_unexp: r is the entry that holds the unexpected packet, 0
\* when it could not be cloned
rxr_pkt_get_unexp(s, p) ==
    IF rx_copy_unexp /\ s.ep.pkt[p].type = "RXR_PKT_ENTRY_POSTED"
    THEN Bind(rxr_pkt_entry_clone(s, rx_unexp_pkt_pool, p, "RXR_PKT_ENTRY_UNEXP"),
              LAMBDA s1 :
                 IF s1.r = 0 \/ s1.crashed THEN s1
                 ELSE [rxr_pkt_entry_release_rx(s1, p) EXCEPT !.r = s1.r])
    ELSE [s EXCEPT !.r = p]

\* efa_post_recv: the work request of the buffer joins the recv_more chain;
\* with FI_MORE (more = 1) the call ends there, without it ibv_post_recv
\* hands the chain to the device and the chain is emptied.  accept = 0: the
\* pool of work requests is empty (xerr FI_ENOMEM), or ibv_post_recv fails.
efa_post_recv(s, p, more) ==
    IF s.accept = 0 /\ s.xerr = FI_ENOMEM
    THEN [s EXCEPT !.trace = Append(@, Step("fi_recvmsg", p, more, FI_ENOMEM)),
                   !.r = -FI_ENOMEM]
    ELSE IF more = 1
    THEN [s EXCEPT !.ep.recv_more = Append(@, p),
                   !.ep.pkt[p].at = "chain",
                   !.trace = Append(@, Step("fi_recvmsg", p, more, 0)),
                   !.r = 0]
    ELSE IF s.accept = 0
    THEN [s EXCEPT !.ep.recv_more = <<>>,
                   !.ep.pkt = [q \in PktIds |->
                                  IF q = p \/ InList(s.ep.recv_more, q)
                                  THEN [s.ep.pkt[q] EXCEPT !.at = "lost"]
                                  ELSE s.ep.pkt[q]],
                   !.trace = Append(@, Step("fi_recvmsg", p, more, s.xerr)),
                   !.r = -s.xerr]
    ELSE [s EXCEPT !.accept = @ - 1,
                   !.ep.recv_more = <<>>,
                   !.ep.pkt = [q \in PktIds |->
                                  IF q = p \/ InList(s.ep.recv_more, q)
                                  THEN [s.ep.pkt[q] EXCEPT !.at = "device"]
                                  ELSE s.ep.pkt[q]],
                   !.trace = Append(@, Step("fi_recvmsg", p, more, 0)),
                   !.r = 0]

\* fi_recvmsg of the shm endpoint
shm_fi_recvmsg(s, p, more) ==
    IF s.accept = 0
    THEN [s EXCEPT !.trace = Append(@, Step("fi_recvmsg", p, more, s.xerr)), !.r = -s.xerr]
    ELSE [s EXCEPT !.accept = @ - 1,
                   !.ep.pkt[p].at = "device",
                   !.trace = Append(@, Step("fi_recvmsg", p, more, 0)),
                   !.r = 0]

\* rxr_ep_post_buf with no posted_recv: a packet entry of the pool of the
\* lower endpoint is posted as a receive buffer, and released when the
\* lower endpoint does not take it
rxr_ep_post_buf(s, more, lower_ep_type) ==
    Bind(rxr_pkt_entry_alloc(s, IF lower_ep_type = "SHM_EP" THEN rx_pkt_shm_pool
                                ELSE rx_pkt_efa_pool),
         LAMBDA s1 :
            IF s1.r = 0 THEN [s1 EXCEPT !.r = -FI_ENOMEM]
            ELSE Bind(IF lower_ep_type = "SHM_EP" THEN shm_fi_recvmsg(s1, s1.r, more)
                      ELSE efa_post_recv(s1, s1.r, more),
                      LAMBDA s2 :
                         IF s2.r = 0 THEN s2
                         ELSE [rxr_pkt_entry_release_rx(s2, s1.r) EXCEPT !.r = s2.r]))

\* rx_bufs_efa_to_post or rx_bufs_shm_to_post
ToPost(s, lower_ep_type) ==
    IF lower_ep_type = "SHM_EP" THEN s.ep.rx_bufs_shm_to_post ELSE s.ep.rx_bufs_efa_to_post

PostedOne(s, lower_ep_type) ==
    IF lower_ep_type = "SHM_EP" THEN [s EXCEPT !.ep.rx_bufs_shm_to_post = @ - 1]
    ELSE [s EXCEPT !.ep.rx_bufs_efa_to_post = @ - 1]

\* a refill loop that posts every buffer with FI_MORE
RECURSIVE BulkPostLoop_more(_, _)
BulkPostLoop_more(s, lower_ep_type) ==
    IF ToPost(s, lower_ep_type) = 0 THEN [s EXCEPT !.r = 0]
    ELSE Bind(rxr_ep_post_buf(s, 1, lower_ep_type),
              LAMBDA s1 :
                 IF s1.crashed \/ s1.r # 0 THEN s1
                 ELSE BulkPostLoop_more(PostedOne(s1, lower_ep_type), lower_ep_type))

\* one loop of rxr_ep_bulk_post_recv: while (ep->rx_bufs_..._to_post)
RECURSIVE BulkPostLoop(_, _)
BulkPostLoop(s, lower_ep_type) ==
    IF ToPost(s, lower_ep_type) = 0 THEN [s EXCEPT !.r = 0]
    ELSE Bind(rxr_ep_post_buf(s, IF ToPost(s, lower_ep_type) = 1 THEN 0 ELSE 1,
                              lower_ep_type),
              LAMBDA s1 :
                 IF s1.crashed \/ s1.r # 0 THEN s1
                 ELSE BulkPostLoop(PostedOne(s1, lower_ep_type), lower_ep_type))

\* rxr_ep_bulk_post_recv: r is 0, or the error of the post of a receive
\* buffer (rxr_ep_post_buf) that failed.  recv_err: the error of the post of
\* a buffer where the entries of the pools are not followed.
rxr_ep_bulk_post_recv(s, recv_err) ==
    IF recv_err # 0
    THEN [s EXCEPT !.trace = Append(@, Step("fi_recvmsg", 0, 0, recv_err)), !.r = -recv_err]
    ELSE Bind(BulkPostLoop(s, "EFA_EP"),
              LAMBDA s1 :
                 IF s1.crashed \/ s1.r # 0 \/ ~use_shm THEN s1
                 ELSE BulkPostLoop(s1, "SHM_EP"))

\* the loop of rxr_ep_ctrl that posts n receive buffers, the last without
\* FI_MORE
RECURSIVE EnablePost(_, _, _, _)
EnablePost(s, i, n, lower_ep_type) ==
    IF i >= n THEN [s EXCEPT !.r = 0]
    ELSE Bind(rxr_ep_post_buf(s, IF i = n - 1 \/ lower_ep_type = "SHM_EP" THEN 0 ELSE 1,
                              lower_ep_type),
              LAMBDA s1 :
                 IF s1.crashed \/ s1.r # 0 THEN s1
                 ELSE EnablePost(s1, i + 1, n, lower_ep_type))

\* rxr_ep_ctrl(FI_ENABLE).  rdm_err, shm_err: what fi_enable of the device
\* endpoint and of the shm endpoint return
rxr_ep_ctrl(s, rdm_err, shm_err) ==
    IF rdm_err # 0 THEN [s EXCEPT !.r = -rdm_err]
    ELSE Bind(EnablePost(fastlock_acquire(s), 0, rx_size, "EFA_EP"),
              LAMBDA s1 :
                 IF s1.crashed THEN s1
                 ELSE IF s1.r # 0 \/ ~use_shm THEN fastlock_release(s1)
                 ELSE IF shm_err # 0 THEN [s1 EXCEPT !.r = -shm_err]
                 ELSE fastlock_release(EnablePost(s1, 0, shm_rx_size, "SHM_EP")))

\* rxr_cq_handle_error with no peer: the error is written for the
\* application to read
rxr_cq_handle_error(s, err) ==
    [s EXCEPT !.rx_cq = Append(@, CqEntry(0, -err, 0, 0)), !.r = 0]

\* rxr_peer_timeout_expired: expired are the peers whose deadline the clock
\* has passed; a timeout of 0 has its deadline when it is set
rxr_peer_timeout_expired(s, addr, expired) ==
    rxr_ep_get_peer(s, addr).rnr_timeout = 0 \/ addr \in expired

\* a walk of the backoff list that ends the backoff of the peers whose
\* timeout has expired and leaves them on the list
RECURSIVE BackoffLoop_stay(_, _, _)
BackoffLoop_stay(s, list, expired) ==
    IF list = <<>> THEN s
    ELSE Bind([s EXCEPT !.conn[Head(list)].rdm_peer.flags = @ \ {"RXR_PEER_BACKED_OFF"}],
              LAMBDA s1 :
                 IF ~rxr_peer_timeout_expired(s1, Head(list), expired)
                 THEN BackoffLoop_stay(s1, Tail(list), expired)
                 ELSE BackoffLoop_stay(
                          [s1 EXCEPT !.conn[Head(list)].rdm_peer.flags =
                                         @ \ {"RXR_PEER_IN_BACKOFF"}],
                          Tail(list), expired))

\* the loop of rxr_ep_check_peer_backoff_timer over ep->peer_backoff_list
RECURSIVE BackoffLoop(_, _, _)
BackoffLoop(s, list, expired) ==
    IF list = <<>> THEN s
    ELSE Bind([s EXCEPT !.conn[Head(list)].rdm_peer.flags = @ \ {"RXR_PEER_BACKED_OFF"}],
              LAMBDA s1 :
                 IF ~rxr_peer_timeout_expired(s1, Head(list), expired)
                 THEN BackoffLoop(s1, Tail(list), expired)
                 ELSE BackoffLoop(
                          [s1 EXCEPT !.conn[Head(list)].rdm_peer.flags =
                                         @ \ {"RXR_PEER_IN_BACKOFF"},
                                     !.ep.peer_backoff_list = Without(@, Head(list)),
                                     !.trace = Append(@, Step("rxr_peer_timeout_expired",
                                                              [addr |-> Head(list)],
                                                              Head(list), 0))],
                          Tail(list), expired))

\* rxr_ep_check_peer_backoff_timer
rxr_ep_check_peer_backoff_timer(s, expired) ==
    BackoffLoop(s, s.ep.peer_backoff_list, expired)

\* the labels of rxr_ep_progress_internal
handshake_err(s) ==
    IF s.ub = "crash" THEN Crash(Log(s, Step("return", "assert", 0, 0)))
    ELSE [s EXCEPT !.ep.eq = Append(@, [err |-> FI_EIO, prov_errno |-> -s.r]),
                   !.trace = Append(@, Step("return", "handshake_err", 0, 0)),
                   !.next = "return"]

rx_err(s, x) ==
    [rxr_cq_handle_rx_error(s, x, s.r) EXCEPT
        !.trace = Append(@, Step("return", "rx_err", 0, 0)), !.next = "return"]

tx_err(s, t) ==
    [rxr_cq_handle_tx_error(s, t, s.r) EXCEPT
        !.trace = Append(@, Step("return", "tx_err", 0, 0)), !.next = "return"]

read_err(s, t) ==
    [rxr_read_handle_error(s, t, s.r) EXCEPT
        !.trace = Append(@, Step("return", "read_err", 0, 0)), !.next = "return"]

\* the loop over ep->peer_queued_list
RECURSIVE HandshakeLoop(_, _)
HandshakeLoop(s, list) ==
    IF list = <<>> THEN s
    ELSE Bind(rxr_pkt_post_handshake(s, Head(list)),
              LAMBDA s1 :
                 IF s1.crashed \/ s1.r = -FI_EAGAIN THEN s1
                 ELSE IF s1.r # 0 THEN handshake_err(s1)
                 ELSE Bind([s1 EXCEPT !.ep.peer_queued_list = Without(@, Head(list)),
                                      !.conn[Head(list)].rdm_peer.flags =
                                          @ \ {"RXR_PEER_HANDSHAKE_QUEUED"}],
                           LAMBDA s2 : HandshakeLoop(s2, Tail(list))))

\* a loop over ep->rx_entry_queued_list that sends the queued packets of an
\* entry and leaves them in its list of queued packets
RECURSIVE RxQueuedLoop_keep(_, _)
RxQueuedLoop_keep(s, list) ==
    IF list = <<>> THEN s
    ELSE IF InBackoff(s, s.rx_entry[Head(list)].addr) THEN RxQueuedLoop_keep(s, Tail(list))
    ELSE Bind(IF s.rx_entry[Head(list)].state = "RXR_RX_QUEUED_CTRL"
              THEN rxr_pkt_post_ctrl_rx(s, Head(list), s.rx_entry[Head(list)].queued_ctrl)
              ELSE rxr_ep_send_queued_pkts(s, "rx", Head(list)),
              LAMBDA s1 :
                 IF s1.crashed \/ s1.r = -FI_EAGAIN THEN s1
                 ELSE IF s1.r # 0 THEN rx_err(s1, Head(list))
                 ELSE Bind([s1 EXCEPT !.ep.rx_entry_queued_list = Without(@, Head(list)),
                                      !.rx_entry[Head(list)].queued_pkts =
                                          s.rx_entry[Head(list)].queued_pkts,
                                      !.rx_entry[Head(list)].state = "RXR_RX_RECV"],
                           LAMBDA s2 : RxQueuedLoop_keep(s2, Tail(list))))

\* the loop over ep->rx_entry_queued_list
RECURSIVE RxQueuedLoop(_, _)
RxQueuedLoop(s, list) ==
    IF list = <<>> THEN s
    ELSE IF InBackoff(s, s.rx_entry[Head(list)].addr) THEN RxQueuedLoop(s, Tail(list))
    ELSE Bind(IF s.rx_entry[Head(list)].state = "RXR_RX_QUEUED_CTRL"
              THEN rxr_pkt_post_ctrl_rx(s, Head(list), s.rx_entry[Head(list)].queued_ctrl)
              ELSE rxr_ep_send_queued_pkts(s, "rx", Head(list)),
              LAMBDA s1 :
                 IF s1.crashed \/ s1.r = -FI_EAGAIN THEN s1
                 ELSE IF s1.r # 0 THEN rx_err(s1, Head(list))
                 ELSE Bind([s1 EXCEPT !.ep.rx_entry_queued_list = Without(@, Head(list)),
                                      !.rx_entry[Head(list)].state = "RXR_RX_RECV"],
                           LAMBDA s2 : RxQueuedLoop(s2, Tail(list))))

\* a round that takes the entry off the queued list and sets its state, and
\* does not put it on the pending list
TxDequeue_nopending(s, t) ==
    [s EXCEPT !.ep.tx_entry_queued_list = Without(@, t),
              !.tx_entry[t].state =
                  IF @ \in {"RXR_TX_QUEUED_REQ_RNR", "RXR_TX_QUEUED_CTRL"} THEN "RXR_TX_REQ"
                  ELSE IF @ = "RXR_TX_QUEUED_DATA_RNR" THEN "RXR_TX_SEND"
                  ELSE @]

\* the end of one round of the loop over ep->tx_entry_queued_list
TxDequeue(s, t) ==
    [s EXCEPT !.ep.tx_entry_queued_list = Without(@, t),
              !.tx_entry[t].state =
                  IF @ \in {"RXR_TX_QUEUED_REQ_RNR", "RXR_TX_QUEUED_CTRL"} THEN "RXR_TX_REQ"
                  ELSE IF @ = "RXR_TX_QUEUED_DATA_RNR" THEN "RXR_TX_SEND"
                  ELSE @,
              !.ep.tx_pending_list =
                  IF s.tx_entry[t].state = "RXR_TX_QUEUED_DATA_RNR" THEN Append(@, t) ELSE @]

\* a loop over ep->tx_entry_queued_list that takes the entries off the list
\* without posting their control packets
RECURSIVE TxQueuedLoop_nopost(_, _)
TxQueuedLoop_nopost(s, list) ==
    IF list = <<>> THEN s
    ELSE IF InBackoff(s, s.tx_entry[Head(list)].addr)
    THEN TxQueuedLoop_nopost(s, Tail(list))
    ELSE Bind(rxr_ep_send_queued_pkts(s, "tx", Head(list)),
              LAMBDA s1 :
                 IF s1.crashed \/ s1.r = -FI_EAGAIN THEN s1
                 ELSE IF s1.r # 0 THEN tx_err(s1, Head(list))
                 ELSE Bind(TxDequeue(s1, Head(list)),
                           LAMBDA s3 : TxQueuedLoop_nopost(s3, Tail(list))))

\* the loop over ep->tx_entry_queued_list
RECURSIVE TxQueuedLoop(_, _)
TxQueuedLoop(s, list) ==
    IF list = <<>> THEN s
    ELSE IF InBackoff(s, s.tx_entry[Head(list)].addr) THEN TxQueuedLoop(s, Tail(list))
    ELSE Bind(rxr_ep_send_queued_pkts(s, "tx", Head(list)),
              LAMBDA s1 :
                 IF s1.crashed \/ s1.r = -FI_EAGAIN THEN s1
                 ELSE IF s1.r # 0 THEN tx_err(s1, Head(list))
                 ELSE Bind(IF s1.tx_entry[Head(list)].state = "RXR_TX_QUEUED_CTRL"
                           THEN rxr_pkt_post_ctrl_tx(s1, Head(list))
                           ELSE [s1 EXCEPT !.r = 0],
                           LAMBDA s2 :
                              IF s2.crashed \/ s2.r = -FI_EAGAIN THEN s2
                              ELSE IF s2.r # 0 THEN tx_err(s2, Head(list))
                              ELSE Bind(TxDequeue(s2, Head(list)),
                                        LAMBDA s3 : TxQueuedLoop(s3, Tail(list)))))

\* FI_MORE (1) in tx_entry->send_flags for the next DATA packet: set before
\* the loop, and cleared when the packet is the last the window or the
\* transmit queue leaves room for
send_flags(s, t) ==
    IF \/ max_outstanding_tx - s.ep.tx_pending <= 1
       \/ s.tx_entry[t].window <= max_data_payload_size
    THEN 0
    ELSE 1

\* the sends of a trace that are in the xmit_more chain of the device
\* endpoint when the trace ends: taken with FI_MORE, and followed by no send
\* taken without it and by no flush
XmitMore(trace) ==
    {k \in DOMAIN trace :
        /\ trace[k].e = "fi_post" /\ trace[k].flag = 0 /\ trace[k].conn = 1
        /\ \A j \in DOMAIN trace :
              j > k => /\ trace[j].e # "efa_post_flush"
                       /\ ~(trace[j].e = "fi_post" /\ trace[j].flag = 0 /\ trace[j].conn = 0)}

\* the out label of rxr_ep_progress_internal: efa_post_flush when the
\* xmit_more chain is not empty
out(s) ==
    IF s.crashed \/ s.next = "return" \/ XmitMore(s.trace) = {} THEN s
    ELSE Log(s, Step("efa_post_flush", [addr |-> 0], 0, 0))

\* while (tx_entry->window > 0)
RECURSIVE DataLoop(_, _)
DataLoop(s, t) ==
    IF s.tx_entry[t].window <= 0 THEN s
    ELSE IF s.ep.tx_pending = max_outstanding_tx THEN [s EXCEPT !.next = "out"]
    ELSE IF InBackoff(s, s.tx_entry[t].addr) THEN s
    ELSE Bind(rxr_pkt_post_data([s EXCEPT !.more = send_flags(s, t)], t),
              LAMBDA s0 :
                 Bind([s0 EXCEPT !.more = 0],
                      LAMBDA s1 :
                         IF s1.crashed THEN s1
                         ELSE IF s1.r = -FI_EAGAIN THEN [s1 EXCEPT !.next = "out"]
                         ELSE IF s1.r # 0 THEN tx_err(s1, t)
                         ELSE DataLoop(s1, t)))

\* the loop over ep->tx_pending_list
RECURSIVE PendingLoop(_, _)
PendingLoop(s, list) ==
    IF list = <<>> \/ s.crashed \/ s.next # "go" THEN s
    ELSE IF \/ InBackoff(s, s.tx_entry[Head(list)].addr)
            \/ s.tx_entry[Head(list)].window <= 0
    THEN PendingLoop(s, Tail(list))
    ELSE Bind(DataLoop(s, Head(list)), LAMBDA s1 : PendingLoop(s1, Tail(list)))

\* the loop over ep->read_pending_list
RECURSIVE ReadLoop(_, _)
ReadLoop(s, list) ==
    IF list = <<>> THEN s
    ELSE IF InBackoff(s, s.tx_entry[Head(list)].addr) THEN ReadLoop(s, Tail(list))
    ELSE IF s.ep.tx_pending = max_outstanding_tx THEN [s EXCEPT !.next = "out"]
    ELSE Bind(rxr_read_post(s, Head(list)),
              LAMBDA s1 :
                 IF s1.crashed \/ s1.r = -FI_EAGAIN THEN s1
                 ELSE IF s1.r # 0 THEN read_err(s1, Head(list))
                 ELSE Bind([s1 EXCEPT !.ep.read_pending_list = Without(@, Head(list))],
                           LAMBDA s2 : ReadLoop(s2, Tail(list))))

\* a progress engine that walks the backoff list after it has posted what
\* is queued and pending
rxr_ep_progress_internal_walklast(s, recv_err, expired) ==
    Bind(rxr_ep_bulk_post_recv(s, recv_err),
         LAMBDA s0 :
            IF s0.crashed THEN s0
            ELSE IF s0.r # 0
            THEN [rxr_cq_handle_error(s0, s0.r) EXCEPT
                     !.trace = Append(@, Step("return", "rxr_ep_bulk_post_recv", 0, 0)),
                     !.next = "return"]
            ELSE Go(Go(Go(Go(Go(HandshakeLoop(s0, s0.ep.peer_queued_list),
                                LAMBDA s2 : RxQueuedLoop(s2, s2.ep.rx_entry_queued_list)),
                             LAMBDA s3 : TxQueuedLoop(s3, s3.ep.tx_entry_queued_list)),
                          LAMBDA s4 : PendingLoop(s4, s4.ep.tx_pending_list)),
                       LAMBDA s5 : ReadLoop(s5, s5.ep.read_pending_list)),
                    LAMBDA s6 : rxr_ep_check_peer_backoff_timer(s6, expired)))

\* rxr_ep_progress_internal after the completion queues have been polled:
\* s is the state the handlers of the polled completions left
rxr_ep_progress_internal(s, recv_err, expired) ==
    Bind(rxr_ep_bulk_post_recv(s, recv_err),
         LAMBDA s0 :
            IF s0.crashed THEN s0
            ELSE IF s0.r # 0
            THEN [rxr_cq_handle_error(s0, s0.r) EXCEPT
                     !.trace = Append(@, Step("return", "rxr_ep_bulk_post_recv", 0, 0)),
                     !.next = "return"]
            ELSE out(Go(Go(Go(Go(Go(rxr_ep_check_peer_backoff_timer(s0, expired),
                                    LAMBDA s1 : HandshakeLoop(s1, s1.ep.peer_queued_list)),
                                 LAMBDA s2 : RxQueuedLoop(s2, s2.ep.rx_entry_queued_list)),
                              LAMBDA s3 : TxQueuedLoop(s3, s3.ep.tx_entry_queued_list)),
                           LAMBDA s4 : PendingLoop(s4, s4.ep.tx_pending_list)),
                        LAMBDA s5 : ReadLoop(s5, s5.ep.read_pending_list))))

\* rxr_ep_progress: the progress engine runs with the endpoint lock held;
\* polled is the state the handlers of the polled completions left, the lock
\* acquired before the poll
rxr_ep_progress(polled, recv_err, expired) ==
    fastlock_release(rxr_ep_progress_internal(polled, recv_err, expired))

----------------------------------------------------------------------------
(* Actions *)

\* the inserted fi_addrs
LivePeers == {i \in AvIndex : util_av[i] # NoAddr}

SeqsOf(S, n) == UNION {[1 .. k -> S] : k \in 1 .. n}
Injective(f) == \A a, b \in DOMAIN f : a # b => f[a] # f[b]

Finish(s, op, args) ==
    /\ util_av' = s.util_av
    /\ conn' = s.conn
    /\ ah_map' = s.ah_map
    /\ reverse_av' = s.reverse_av
    /\ used' = s.used
    /\ shm_used' = s.shm_used
    /\ shm_rdm_addr_map' = s.shm_rdm_addr_map
    /\ shm_av' = s.shm_av
    /\ tx_entry' = s.tx_entry
    /\ rx_entry' = s.rx_entry
    /\ rx_list' = s.rx_list
    /\ rx_tagged_list' = s.rx_tagged_list
    /\ rx_unexp_list' = s.rx_unexp_list
    /\ rx_cq' = s.rx_cq
    /\ tx_cq' = s.tx_cq
    /\ ep' = s.ep
    /\ crashed' = s.crashed
    /\ ev' = IF s.crashed
             THEN [op |-> op, args |-> args, ret |-> 0, out |-> <<>>, trace |-> s.trace,
                   lock |-> 0]
             ELSE [op |-> op, args |-> args, ret |-> s.r, out |-> s.out, trace |-> s.trace,
                   lock |-> s.lock]

Running == ~crashed /\ ~closed

\* fi_av_insert(av, addr, count, fi_addr, flags, context) with flags 0
AvInsertOf(addrs_in, faults_in) ==
    /\ Running
    /\ \E addrs \in addrs_in, fault \in faults_in :
          \E uninit \in {NullEntry, WildEntry} \cup reverse_av :
             \E s \in {efa_av_insert(St, addrs, "0", fault, uninit)} :
                /\ uninit = NullEntry \/ s.uninit_read
                /\ Finish(s, "fi_av_insert", addrs)
    /\ UNCHANGED envVars

\* fi_av_insert with flags the provider does not support
AvInsertFlags ==
    /\ Running
    /\ \E flags \in InsertFlags \ {"0"} :
          Finish(efa_av_insert(St, <<ZeroGidAddr>>, flags, "none", NullEntry),
                 "fi_av_insert", <<ZeroGidAddr>>)
    /\ UNCHANGED envVars

\* fi_av_remove(av, fi_addr, count, flags) of inserted addresses
AvRemoveOf(n) ==
    /\ Running
    /\ \E fi_addr \in SeqsOf(LivePeers \cup {FI_ADDR_UNSPEC}, n) :
          /\ Injective(fi_addr)
          /\ Finish(efa_av_remove(St, fi_addr, 1), "fi_av_remove", fi_addr)
    /\ UNCHANGED envVars

\* fi_av_remove of an fi_addr that is not inserted: one that no insert has
\* returned, or one that was removed
AvRemoveFree ==
    /\ Running
    /\ \E i \in AvIndex \ LivePeers, ub \in {"none", "crash"} :
          Finish(efa_av_remove([St EXCEPT !.ub = ub], <<i>>, 1), "fi_av_remove", <<i>>)
    /\ UNCHANGED envVars

\* fi_close(av): efa_av_close
AvClose ==
    /\ Running
    /\ Finish([efa_av_close_reverse_av(St) EXCEPT !.r = 0], "fi_close", <<>>)
    /\ closed' = TRUE
    /\ UNCHANGED <<net, remote>>

\* a send, write or read to an inserted address takes a TX entry
AllocTxEntry ==
    /\ Running
    /\ \E addr \in LivePeers :
          Finish(rxr_ep_alloc_tx_entry(St, addr), "rxr_ep_alloc_tx_entry", <<addr>>)
    /\ UNCHANGED envVars

\* the operation of a TX entry completes
ReleaseTxEntry ==
    /\ Running
    /\ \E t \in DOMAIN tx_entry :
          /\ tx_entry[t].state # "RXR_TX_FREE"
          /\ Finish([rxr_release_tx_entry(St, t) EXCEPT !.r = 0], "rxr_release_tx_entry", <<t>>)
    /\ UNCHANGED envVars

\* a receive from an inserted address or from any address, or an incoming
\* RMA or atomic operation of a peer, takes an RX entry
AllocRxEntry ==
    /\ Running
    /\ \E addr \in LivePeers \cup {FI_ADDR_UNSPEC} :
          Finish(rxr_ep_alloc_rx_entry(St, addr), "rxr_ep_alloc_rx_entry", <<addr>>)
    /\ UNCHANGED envVars

\* the operation of an RX entry completes
ReleaseRxEntry ==
    /\ Running
    /\ \E x \in DOMAIN rx_entry :
          /\ rx_entry[x].state # "RXR_RX_FREE"
          /\ Finish([rxr_release_rx_entry(St, x) EXCEPT !.r = 0], "rxr_release_rx_entry", <<x>>)
    /\ UNCHANGED envVars

----------------------------------------------------------------------------
(* Spec: the address vector under every failure of its environment *)

\* calls of fi_av_insert with count 2: a valid address before and after an
\* invalid one, the same address twice, two addresses of one GID, and two
\* addresses of one GID and QPN
InsertPairs ==
    {<<EfaAddr(2, 1, 1), ZeroGidAddr>>, <<ZeroGidAddr, EfaAddr(2, 1, 1)>>,
     <<EfaAddr(2, 1, 1), EfaAddr(2, 1, 1)>>, <<EfaAddr(2, 1, 1), EfaAddr(2, 2, 1)>>,
     <<EfaAddr(1, 1, 1), EfaAddr(1, 1, 2)>>}

AvInsert == AvInsertOf(SeqsOf(RawAddrs, 1), Faults)
AvInsertMany == AvInsertOf(InsertPairs, {"none"})
AvRemove == AvRemoveOf(2)

Next ==
    \/ AvInsert
    \/ AvInsertMany
    \/ AvInsertFlags
    \/ AvRemove
    \/ AvRemoveFree
    \/ AvClose

Spec == Init /\ [][Next]_vars

----------------------------------------------------------------------------
(* SpecPeer: the address vector and the TX / RX entries of its peers, in an  *)
(* environment whose allocations succeed                                   *)

PeerAddrs == {EfaAddr(1, 1, 1), EfaAddr(1, 1, 2), EfaAddr(2, 1, 1)}

PeerInsert == AvInsertOf(SeqsOf(PeerAddrs, 1), {"none"})
PeerRemove == AvRemoveOf(2)

NextPeer ==
    \/ PeerInsert
    \/ PeerRemove
    \/ AvClose
    \/ AllocTxEntry
    \/ ReleaseTxEntry
    \/ AllocRxEntry
    \/ ReleaseRxEntry

SpecPeer == Init /\ [][NextPeer]_vars

----------------------------------------------------------------------------
(* Receive cancellation: receives are posted, matched by messages of a *)
(* sender, and cancelled                                                *)

Contexts == 1 .. MaxContext

\* two endpoints of a remote host that get the same QPN one after the other
OldAddr == EfaAddr(2, 1, 1)
NewAddr == EfaAddr(2, 1, 2)

\* fi_recv / fi_trecv with a context
PostRecvOf(contexts, tags) ==
    /\ Running
    /\ \E context \in contexts, tagged \in tags :
          \E s \in {rxr_msg_generic_recv(St, context, tagged)} :
             /\ s.r = 0
             /\ Finish(s, IF tagged THEN "fi_trecv" ELSE "fi_recv", <<context>>)
    /\ UNCHANGED envVars

\* the application reads the rx_cq before it is full
PostRecv == Len(rx_cq) < MaxCq /\ PostRecvOf(Contexts, BOOLEAN)

\* fi_cancel(ep, context)
Cancel ==
    /\ Running
    /\ \E context \in Contexts :
          Finish(rxr_ep_cancel(St, context), "fi_cancel", <<context>>)
    /\ UNCHANGED envVars

\* fi_cq_read / fi_cq_readerr takes the first entry of the rx_cq
CqRead ==
    /\ Running
    /\ rx_cq # <<>>
    /\ Finish([St EXCEPT !.rx_cq = Tail(@)], "fi_cq_read", <<>>)
    /\ UNCHANGED envVars

\* the second remote endpoint sends an eager message; its REQ packets have
\* the raw address header and the connid header
NewPeerSend ==
    /\ Running
    /\ remote.new = "alive"
    /\ remote.sent < MaxMsg
    /\ net' = net \cup {Pkt(RXR_EAGER_MSGRTM_PKT,
                            {"RXR_REQ_OPT_RAW_ADDR_HDR", "RXR_REQ_OPT_CONNID_HDR"},
                            NewAddr, 0, remote.sent + 1)}
    /\ remote' = [remote EXCEPT !.sent = @ + 1]
    /\ ev' = [NoEv EXCEPT !.op = "send"]
    /\ UNCHANGED <<avVars, epVars, ep, tx_entry, rx_entry, crashed, closed>>

\* the first remote endpoint is destroyed and the second one takes its QPN
PeerRestart ==
    /\ Running
    /\ remote.old = "alive"
    /\ remote' = [remote EXCEPT !.old = "destroyed", !.new = "alive"]
    /\ ev' = [NoEv EXCEPT !.op = "restart"]
    /\ UNCHANGED <<avVars, epVars, ep, tx_entry, rx_entry, net, crashed, closed>>

\* the progress engine takes one received packet from the device's CQ
Poll ==
    /\ Running
    /\ \E pkt \in net :
          /\ \E ub \in {"none", "crash"} :
                \E s \in {rdm_ep_poll_ibv_cq(St, pkt, ub)} :
                   /\ ub = "none" \/ s.freed_read
                   /\ Finish(s, "rdm_ep_poll_ibv_cq", <<pkt>>)
          /\ net' = net \ {pkt}
    /\ UNCHANGED <<closed, remote>>

InitCancel == InitOf(TxIds, 1 .. (MaxRx + 1))

NextCancel == PostRecv \/ Cancel \/ CqRead \/ PeerRestart \/ NewPeerSend \/ Poll

SpecCancel == InitCancel /\ [][NextCancel]_vars

----------------------------------------------------------------------------
(* QP reuse: a remote endpoint is destroyed and another one gets its QPN  *)
(* while packets of the first are on their way                             *)

\* the types of the packets the first endpoint sends
PktTypes ==
    {RXR_EAGER_MSGRTM_PKT, RXR_CTS_PKT, RXR_DATA_PKT, RXR_READRSP_PKT,
     RXR_EOR_PKT, RXR_RECEIPT_PKT, RXR_HANDSHAKE_PKT}

\* the application inserts the address of a remote endpoint that exists
AppInsert ==
    AvInsertOf({<<a>> : a \in {OldAddr : x \in {remote.old} \ {"destroyed"}}
                                \cup {NewAddr : x \in {remote.new} \ {"none"}}},
               {"none"})

\* the first remote endpoint, a peer of the endpoint, sends a packet: a
\* message, or a packet for a TX or RX entry the endpoint has for an operation
\* with it.  Its packets have the connid header.
OldPeerSend ==
    /\ Running
    /\ remote.old = "alive"
    /\ remote.stale < MaxStale
    /\ \E type \in PktTypes :
          LET i == ofi_av_lookup_fi_addr_unsafe(util_av, OldAddr)
              ids == IF i = FI_ADDR_NOTAVAIL THEN {}
                     ELSE IF type >= RXR_REQ_PKT_BEGIN \/ type = RXR_HANDSHAKE_PKT THEN {0}
                     ELSE IF type \in {RXR_DATA_PKT, RXR_READRSP_PKT}
                     THEN conn[i].rdm_peer.rx_entry_list
                     ELSE conn[i].rdm_peer.tx_entry_list
              flags == IF type >= RXR_REQ_PKT_BEGIN
                       THEN {"RXR_REQ_OPT_RAW_ADDR_HDR", "RXR_REQ_OPT_CONNID_HDR"}
                       ELSE {OptConnidFlag(type)}
          IN \E id \in ids :
                net' = net \cup {Pkt(type, flags, OldAddr, id, 0)}
    /\ remote' = [remote EXCEPT !.stale = @ + 1]
    /\ ev' = [NoEv EXCEPT !.op = "send"]
    /\ UNCHANGED <<avVars, epVars, ep, tx_entry, rx_entry, crashed, closed>>

\* the application posts a receive for any source
PostRecvAny == PostRecvOf({1}, {FALSE})

NextReuse ==
    \/ AppInsert
    \/ AllocTxEntry
    \/ AllocRxEntry
    \/ OldPeerSend
    \/ PeerRestart
    \/ NewPeerSend
    \/ PostRecvAny
    \/ Poll

\* the progress engine keeps polling and the application keeps posting
\* receives
SpecReuse == Init /\ [][NextReuse]_vars /\ WF_vars(Poll) /\ WF_vars(PostRecvAny)

----------------------------------------------------------------------------
(* Sending: messages and reads to a remote peer, the progress engine, the  *)
(* completions of the device and the answers of the peer                    *)

\* the lengths of the messages: an eager one, a medium one of two packets,
\* a long-CTS one
SendLens ==
    {max_data_payload_size, 2 * max_data_payload_size, efa_max_medium_msg_size,
     efa_max_medium_msg_size + 1}

InitSend == InitOf(1 .. (MaxTx + 1), RxIds)

\* the application inserts the address of the remote endpoint
SendInsert == AvInsertOf({<<OldAddr>>}, {"none"})

\* fi_sendmsg(ep, msg, flags): the transport takes accept packets
FiSendmsg ==
    /\ Running
    /\ Len(tx_cq) < MaxCq
    /\ \E i \in LivePeers, len \in SendLens, accept \in 0 .. MaxAccept,
          flags \in {{}, {"FI_DELIVERY_COMPLETE"}} :
          /\ conn[i].rdm_peer.next_msg_id < MaxSend
          /\ \E s \in {rxr_msg_generic_send([St EXCEPT !.accept = accept],
                                            FiMsg(i, len, 1, flags))} :
                Finish(s, "fi_sendmsg", <<i, len>>)
    /\ UNCHANGED envVars

\* fi_read(ep, ...) of a buffer of more segments than max_outstanding_tx,
\* while no other read is under way: a TX entry is made for the read, whose
\* segments are posted or queued
FiRead ==
    /\ Running
    /\ tx_cq = <<>>
    /\ ep.wire = <<>>
    /\ \A t \in DOMAIN tx_entry : tx_entry[t].op # "ofi_op_read_req"
    /\ \E i \in LivePeers, accept \in 0 .. MaxAccept, xerr \in {FI_EAGAIN, FI_EIO} :
          \E s \in {Bind(rxr_ep_alloc_tx_entry([St EXCEPT !.accept = accept, !.xerr = xerr], i),
                         LAMBDA s1 :
                            IF s1.r = 0 THEN [s1 EXCEPT !.r = -FI_EAGAIN]
                            ELSE Bind(s1.r,
                                LAMBDA id :
                                   Bind(rxr_read_post_or_queue(
                                            [s1 EXCEPT !.tx_entry[id].op = "ofi_op_read_req",
                                                       !.tx_entry[id].total_len =
                                                           (max_outstanding_tx + 1)
                                                               * efa_read_segment_size], id),
                                        LAMBDA s2 :
                                           IF s2.r = 0 THEN s2
                                           ELSE rxr_release_tx_entry(
                                                    [s2 EXCEPT !.ep.wire = Disown(@, id)],
                                                    id))))} :
             Finish(s, "fi_read", <<i>>)
    /\ UNCHANGED envVars

\* the first REQ packet of a peer has been received: the endpoint answers
\* with a HANDSHAKE packet
HandshakeTo ==
    /\ Running
    /\ \E i \in LivePeers, accept \in 0 .. 1, xerr \in {FI_EAGAIN, FI_EIO} :
          /\ conn[i].rdm_peer.flags
                 \cap {"RXR_PEER_HANDSHAKE_SENT", "RXR_PEER_HANDSHAKE_QUEUED"} = {}
          /\ Finish(rxr_pkt_post_handshake_or_queue(
                        [St EXCEPT !.accept = accept, !.xerr = xerr], i),
                    "rxr_pkt_post_handshake_or_queue", <<i>>)
    /\ UNCHANGED envVars

\* one call of rxr_ep_progress_internal.  Handler is what the handlers of the
\* polled completions do.  The transport takes accept posts and refuses the
\* next with xerr, the post of a receive buffer fails with recv_err unless
\* that is 0, and the backoff timers have expired or not.  The application
\* has read the errors of earlier calls before one more is written.
ProgressOf(Handler(_), accepts, xerrs, recv_errs, timers) ==
    \E accept \in accepts, xerr \in xerrs, recv_err \in recv_errs, expired \in timers,
       ub \in {"none", "crash"} :
       /\ xerr # FI_EAGAIN \/ recv_err # 0 => ep.eq = <<>> /\ rx_cq = <<>> /\ tx_cq = <<>>
       /\ \E s \in {rxr_ep_progress(
                        Handler(fastlock_acquire(
                                    [St EXCEPT !.accept = accept, !.xerr = xerr, !.ub = ub])),
                        recv_err, expired)} :
             /\ ub = "none" \/ s.crashed
             /\ Finish(s, "rxr_ep_progress", <<>>)

AllAccepts == 0 .. MaxAccept

\* what the clock says of the backoff timers during a call: none of the
\* deadlines has passed, or all have
Timers == {{}, AvIndex}
Expired == {AvIndex}

\* a progress call that finds the completion queues empty
ProgressIdleOf(xerrs, recv_errs, timers) ==
    /\ Running
    /\ ProgressOf(LAMBDA s : s, AllAccepts, xerrs, recv_errs, timers)
    /\ UNCHANGED envVars

\* the completion of the k-th post the transports hold
PollSend(s, k) ==
    Bind([Log(s, Step("IBV_WC_SUCCESS", s.ep.wire[k], s.ep.wire[k].addr, 0))
          EXCEPT !.ep.wire = RemoveAt(@, k)],
         LAMBDA s1 : rxr_pkt_handle_send_completion(s1, s.ep.wire[k]))

\* the receiver of the k-th post was not ready
PollRnr(s, k) ==
    Bind([Log(s, Step("IBV_WC_RNR_RETRY_EXC_ERR", s.ep.wire[k], s.ep.wire[k].addr, 0))
          EXCEPT !.ep.wire = RemoveAt(@, k)],
         LAMBDA s1 : rxr_pkt_handle_send_error(s1, s.ep.wire[k]))

\* the TX entry has the RECEIPT of its message, or the RECEIPT is on its way
ReceiptSent(t) ==
    \/ "RXR_RECEIPT_RECEIVED" \in tx_entry[t].rxr_flags
    \/ \E pkt \in net : pkt.type = RXR_RECEIPT_PKT /\ pkt.id = t

\* a progress call that polls the completion of a post
ProgressSendCompletionOf(xerrs, recv_errs, timers) ==
    /\ Running
    /\ \E k \in DOMAIN ep.wire :
          ProgressOf(LAMBDA s : PollSend(s, k), AllAccepts, xerrs, recv_errs, timers)
    /\ UNCHANGED envVars

\* a progress call that polls the error completion of a packet of a TX
\* entry whose receiver was not ready
ProgressRnr ==
    /\ Running
    /\ \E k \in DOMAIN ep.wire :
          /\ ep.wire[k].owner = "tx"
          /\ ep.wire[k].type # 0
          /\ ~ReceiptSent(ep.wire[k].id)
          /\ ProgressOf(LAMBDA s : PollRnr(s, k), AllAccepts, {FI_EAGAIN}, {0}, Timers)
    /\ UNCHANGED envVars

\* the packets of the peer for a TX entry that is still the one they were
\* sent for
ForTx(pkt) ==
    /\ pkt.type \in {RXR_CTS_PKT, RXR_RECEIPT_PKT}
    /\ tx_entry[pkt.id].state # "RXR_TX_FREE"
    /\ tx_entry[pkt.id].msg_id = pkt.msg_id

\* a progress call that polls a packet of the peer
ProgressRecv ==
    /\ Running
    /\ \E pkt \in net :
          /\ ForTx(pkt)
          /\ ProgressOf(LAMBDA s : rdm_ep_poll_ibv_cq(s, pkt, s.ub),
                        AllAccepts, {FI_EAGAIN}, {0}, Timers)
          /\ net' = net \ {pkt}
    /\ UNCHANGED <<closed, remote>>

\* the peer has the packets of a long-CTS message the endpoint has posted,
\* and bytes are left: it grants a window with a CTS
PeerCts ==
    /\ Running
    /\ \E t \in DOMAIN tx_entry :
          /\ tx_entry[t].state \in {"RXR_TX_REQ", "RXR_TX_SEND"}
          /\ ReqType(tx_entry[t].total_len) = RXR_LONGCTS_MSGRTM_PKT
          /\ tx_entry[t].window = 0
          /\ tx_entry[t].bytes_sent > 0
          /\ tx_entry[t].bytes_sent < tx_entry[t].total_len
          /\ tx_entry[t].bytes_acked = tx_entry[t].bytes_sent
          /\ ~\E pkt \in net : pkt.type = RXR_CTS_PKT /\ pkt.id = t /\ ForTx(pkt)
          /\ \E g \in 1 .. MIN(MaxGrant, tx_entry[t].total_len - tx_entry[t].bytes_sent) :
                net' = net \cup {[Pkt(RXR_CTS_PKT, {OptConnidFlag(RXR_CTS_PKT)},
                                      util_av[tx_entry[t].addr], t, 0)
                                  EXCEPT !.recv_length = g, !.send_id = 1,
                                         !.msg_id = tx_entry[t].msg_id]}
    /\ ev' = [NoEv EXCEPT !.op = "cts"]
    /\ UNCHANGED <<avVars, epVars, ep, tx_entry, rx_entry, remote, crashed, closed>>

\* the peer has all packets of a message sent with FI_DELIVERY_COMPLETE and
\* has copied its payload: it sends the RECEIPT
PeerReceipt ==
    /\ Running
    /\ \E t \in DOMAIN tx_entry :
          /\ tx_entry[t].state \in {"RXR_TX_REQ", "RXR_TX_SEND"}
          /\ "FI_DELIVERY_COMPLETE" \in tx_entry[t].fi_flags
          /\ tx_entry[t].bytes_sent = tx_entry[t].total_len
          /\ tx_entry[t].queued_pkts = <<>>
          /\ ~ReceiptSent(t)
          /\ net' = net \cup {[Pkt(RXR_RECEIPT_PKT, {OptConnidFlag(RXR_RECEIPT_PKT)},
                                    util_av[tx_entry[t].addr], t, 0)
                                EXCEPT !.msg_id = tx_entry[t].msg_id]}
    /\ ev' = [NoEv EXCEPT !.op = "receipt"]
    /\ UNCHANGED <<avVars, epVars, ep, tx_entry, rx_entry, remote, crashed, closed>>

\* fi_cq_read / fi_cq_readerr takes the first entry of the tx_cq
TxCqRead ==
    /\ Running
    /\ tx_cq # <<>>
    /\ Finish([St EXCEPT !.tx_cq = Tail(@)], "fi_cq_read", <<>>)
    /\ UNCHANGED envVars

\* fi_eq_readerr takes the first entry of the event queue
EqRead ==
    /\ Running
    /\ ep.eq # <<>>
    /\ Finish([St EXCEPT !.ep.eq = Tail(@)], "fi_eq_readerr", <<>>)
    /\ UNCHANGED envVars

\* progress calls during which the transport refuses posts with EAGAIN only
ProgressIdle == ProgressIdleOf({FI_EAGAIN}, {0}, Timers)
ProgressSendCompletion == ProgressSendCompletionOf({FI_EAGAIN}, {0}, Timers)

NextSend ==
    \/ SendInsert
    \/ FiSendmsg
    \/ ProgressIdle
    \/ ProgressSendCompletion
    \/ ProgressRnr
    \/ ProgressRecv
    \/ PeerCts
    \/ PeerReceipt
    \/ TxCqRead

SpecSend == InitSend /\ [][NextSend]_vars

\* a progress call during which the transport takes every post and the
\* backoff timers have expired
ProgressAccepting ==
    /\ Running
    /\ ProgressOf(LAMBDA s : s, {MaxAccept}, {FI_EAGAIN}, {0}, Expired)
    /\ UNCHANGED envVars

\* such a progress call that polls the completion of a post
ProgressAcked ==
    /\ Running
    /\ \E k \in DOMAIN ep.wire :
          ProgressOf(LAMBDA s : PollSend(s, k), {MaxAccept}, {FI_EAGAIN}, {0}, Expired)
    /\ UNCHANGED envVars

\* the application keeps calling the progress engine, the transport takes
\* posts again and again, the receiver is ready again and again, and the
\* peer answers
SpecSendFair ==
    /\ SpecSend
    /\ WF_vars(ProgressAccepting)
    /\ SF_vars(ProgressAcked)
    /\ WF_vars(ProgressRecv)
    /\ WF_vars(PeerCts)
    /\ WF_vars(PeerReceipt)

----------------------------------------------------------------------------
(* The progress engine under the errors of the transports: reads and       *)
(* HANDSHAKE packets                                                        *)

\* progress calls during which posts and the posts of receive buffers fail;
\* no peer is in backoff
ProgressErrIdle == ProgressIdleOf({FI_EAGAIN, FI_EIO}, {0, FI_EAGAIN}, Expired)
ProgressErrSendCompletion ==
    ProgressSendCompletionOf({FI_EAGAIN, FI_EIO}, {0, FI_EAGAIN}, Expired)

NextEngine ==
    \/ SendInsert
    \/ FiRead
    \/ HandshakeTo
    \/ ProgressErrIdle
    \/ ProgressErrSendCompletion
    \/ TxCqRead
    \/ CqRead
    \/ EqRead

SpecEngine == InitSend /\ [][NextEngine]_vars

\* sends and reads to a peer whose receiver is not ready now and then
NextBackoff ==
    \/ SendInsert
    \/ FiSendmsg
    \/ FiRead
    \/ ProgressIdle
    \/ ProgressRnr

SpecBackoff == InitSend /\ [][NextBackoff]_vars

\* the application inserts the address of an endpoint of this host, which
\* the shm provider serves
ShmInsert == AvInsertOf({<<EfaAddr(1, 1, 1)>>}, {"none"})

\* rdm_ep_poll_shm_cq reads -FI_EAVAIL: the error entry of the shm completion
\* queue names a packet, and its prov_errno goes to rxr_cq_handle_error as
\* the shm provider wrote it
PollShmErr(s, k) ==
    Bind([Log(s, Step("rdm_ep_poll_shm_err_cq", s.ep.wire[k], s.ep.wire[k].addr, 0))
          EXCEPT !.ep.wire = RemoveAt(@, k)],
         LAMBDA s1 : rxr_pkt_handle_send_error(s1, s.ep.wire[k]))

\* a progress call that polls the error completion of a packet of a TX entry
\* the shm provider could not deliver, the receiver not being ready
ProgressShmRnr ==
    /\ Running
    /\ \E k \in DOMAIN ep.wire :
          /\ ep.wire[k].owner = "tx"
          /\ ep.wire[k].type # 0
          /\ conn[ep.wire[k].addr].rdm_peer.is_local
          /\ ProgressOf(LAMBDA s : PollShmErr(s, k), AllAccepts, {FI_EAGAIN}, {0}, Timers)
    /\ UNCHANGED envVars

\* a progress call that finds the completion queues empty, in which the
\* transport may refuse a post for good
ProgressReadIdle == ProgressIdleOf({FI_EAGAIN, FI_EIO}, {0}, Timers)

NextRead ==
    \/ SendInsert
    \/ FiSendmsg
    \/ FiRead
    \/ ProgressReadIdle
    \/ ProgressRnr

SpecRead == InitSend /\ [][NextRead]_vars

\* a progress call that polls a packet of the peer, in which the transport
\* may refuse a post for good
ProgressErrRecv ==
    /\ Running
    /\ \E pkt \in net :
          /\ ForTx(pkt)
          /\ ProgressOf(LAMBDA s : rdm_ep_poll_ibv_cq(s, pkt, s.ub),
                        AllAccepts, {FI_EAGAIN, FI_EIO}, {0}, Expired)
          /\ net' = net \ {pkt}
    /\ UNCHANGED <<closed, remote>>

NextFlush ==
    \/ SendInsert
    \/ FiSendmsg
    \/ ProgressSendCompletion
    \/ ProgressErrRecv
    \/ PeerCts
    \/ TxCqRead

SpecFlush == InitSend /\ [][NextFlush]_vars

\* the peers whose packets the lower endpoint of a pool delivers
SendersOf(p) ==
    {i \in LivePeers : conn[i].rdm_peer.is_local <=> p \in rx_pkt_shm_pool}

\* the entries linked behind no other entry
Unlinked(p) == \A q \in PktIds : ep.pkt[q].next # p

\* what the memory of a packet entry may hold where its addr is
StaleAddrs == AvIndex \cup {FI_ADDR_NOTAVAIL}

\* the to-post counters are within what the model follows
ToPostBounded(s) ==
    s.ep.rx_bufs_efa_to_post <= MaxToPost /\ s.ep.rx_bufs_shm_to_post <= MaxToPost

\* fi_av_insert of a remote peer and of a peer on this host
PktInsert == LivePeers = {} /\ AvInsertOf({<<OldAddr, EfaAddr(1, 1, 1)>>}, {"none"})

\* fi_enable(ep): rxr_ep_ctrl with FI_ENABLE, once
EpEnableOf(errs, accepts) ==
    /\ Running
    /\ \A p \in PktIds : ep.pkt[p].free
    /\ ep.rx_bufs_efa_to_post = 0 /\ ep.rx_bufs_shm_to_post = 0
    /\ \E rdm_err \in errs, shm_err \in errs, accept \in accepts,
          xerr \in {FI_ENOMEM, FI_EIO}, stale \in StaleAddrs, ub \in {"none", "crash"} :
          \E s \in {rxr_ep_ctrl([St EXCEPT !.accept = accept, !.xerr = xerr,
                                           !.stale = stale, !.ub = ub],
                                 rdm_err, shm_err)} :
             /\ ub = "none" \/ s.crashed
             /\ ToPostBounded(s)
             /\ Finish(s, "fi_enable", <<rdm_err, shm_err>>)
    /\ UNCHANGED envVars

EpEnable == EpEnableOf({0, FI_EINVAL}, AllAccepts)

\* fi_enable(ep) where the lower endpoints take every buffer
EpEnableAll == EpEnableOf({0}, {MaxAccept})

\* a receive completion of a posted buffer (IBV_WC_RECV, or FI_RECV of the
\* shm completion queue): the handler has the entry, with the address of the
\* sender
PktRecv ==
    /\ Running
    /\ \E p \in PktIds, i \in LivePeers :
          /\ ep.pkt[p].at = "device"
          /\ i \in SendersOf(p)
          /\ Finish([St EXCEPT !.ep.pkt[p].addr = i, !.ep.pkt[p].at = "rx"],
                    "recv_completion", <<p>>)
    /\ UNCHANGED envVars

\* rxr_pkt_entry_append: a packet of a medium message is linked behind the
\* first packet of the message
PktAppend ==
    /\ Running
    /\ \E p, q \in PktIds :
          /\ p # q
          /\ ep.pkt[p].at = "rx" /\ ep.pkt[q].at = "rx"
          /\ ep.pkt[p].addr = ep.pkt[q].addr
          /\ ep.pkt[p].next = 0 /\ ep.pkt[q].next = 0
          /\ Unlinked(p) /\ Unlinked(q)
          /\ Finish([St EXCEPT !.ep.pkt[p].next = q], "rxr_pkt_entry_append", <<p, q>>)
    /\ UNCHANGED envVars

\* the release of the packets of a handler: each is unlinked and released
\* with rxr_pkt_entry_release_rx
RECURSIVE ReleaseChain(_, _)
ReleaseChain(s, p) ==
    IF p = 0 \/ s.crashed THEN s
    ELSE Bind(rxr_pkt_entry_release_rx([s EXCEPT !.ep.pkt[p].next = 0], p),
              LAMBDA s1 : ReleaseChain(s1, s.ep.pkt[p].next))

\* a handler is done with a received packet, or an RX entry with the packet
\* it staged
PktRelease ==
    /\ Running
    /\ \E p \in PktIds, ub \in {"none", "crash"} :
          /\ ep.pkt[p].at \in {"rx", "unexp", "ooo"}
          /\ Unlinked(p)
          /\ \E s \in {ReleaseChain([St EXCEPT !.ub = ub], p)} :
                /\ ub = "none" \/ s.crashed
                /\ Finish(s, "rxr_pkt_entry_release_rx", <<p>>)
    /\ UNCHANGED envVars

\* a received packet matches no posted receive: rxr_pkt_get_unexp, and the
\* RX entry of the unexpected message keeps the entry it returns
PktUnexp ==
    /\ Running
    /\ \E p \in PktIds, ub \in {"none", "crash"} :
          /\ ep.pkt[p].at \in {"rx", "ooo"}
          /\ ep.pkt[p].next = 0 /\ Unlinked(p)
          /\ \E s \in {rxr_pkt_get_unexp([St EXCEPT !.ub = ub], p)} :
                /\ ub = "none" \/ s.crashed
                /\ Finish(IF s.crashed \/ s.r = 0 THEN s
                          ELSE [s EXCEPT !.ep.pkt[s.r].at = "unexp"],
                          "rxr_pkt_get_unexp", <<p>>)
    /\ UNCHANGED envVars

\* a received message is ahead of the message the endpoint expects of its
\* sender: its packets are cloned into the out-of-order pool, and the posted
\* buffers released when the clone is made
PktOoo ==
    /\ Running
    /\ \E p \in PktIds, ub \in {"none", "crash"} :
          /\ ep.pkt[p].at = "rx"
          /\ ep.pkt[p].type = "RXR_PKT_ENTRY_POSTED"
          /\ Unlinked(p)
          /\ \E s \in {Bind(rxr_pkt_entry_clone([St EXCEPT !.ub = ub], rx_ooo_pkt_pool, p,
                                                "RXR_PKT_ENTRY_OOO"),
                             LAMBDA s1 :
                                IF s1.crashed \/ s1.r = 0 THEN s1
                                ELSE [ReleaseChain([s1 EXCEPT !.ep.pkt[s1.r].at = "ooo"], p)
                                      EXCEPT !.r = s1.r])} :
                /\ ub = "none" \/ s.crashed
                /\ Finish(s, "rxr_pkt_entry_clone", <<p>>)
    /\ UNCHANGED envVars

\* a progress call that finds the completion queues empty and refills the
\* receive buffers
ProgressRefill ==
    /\ Running
    /\ ep.rx_bufs_efa_to_post + ep.rx_bufs_shm_to_post > 0
    /\ \E stale \in StaleAddrs :
          ProgressOf(LAMBDA s : [s EXCEPT !.stale = stale], AllAccepts,
                     {FI_ENOMEM, FI_EIO}, {0}, {{}})
    /\ ep'.rx_bufs_efa_to_post <= MaxToPost /\ ep'.rx_bufs_shm_to_post <= MaxToPost
    /\ UNCHANGED envVars

NextPkt ==
    \/ PktInsert
    \/ EpEnableAll
    \/ PktRecv
    \/ PktAppend
    \/ PktRelease
    \/ PktUnexp
    \/ PktOoo

SpecPkt == InitSend /\ [][NextPkt]_vars

NextPost ==
    \/ PktInsert
    \/ EpEnable
    \/ PktRecv
    \/ PktRelease
    \/ ProgressRefill
    \/ CqRead

SpecPost == InitSend /\ [][NextPost]_vars

\* the peers that are released and still linked in a list of the endpoint
DanglingPeers ==
    {i \in AvIndex : /\ util_av[i] = NoAddr
                     /\ \/ InList(ep.peer_backoff_list, i)
                        \/ InList(ep.peer_queued_list, i)}

\* the TX entries that are released and still linked in a list of the
\* endpoint
DanglingTx ==
    {t \in DOMAIN tx_entry :
        /\ tx_entry[t].state = "RXR_TX_FREE"
        /\ \/ InList(ep.tx_entry_queued_list, t)
           \/ InList(ep.tx_pending_list, t)
           \/ InList(ep.read_pending_list, t)}

\* the RX entries that are released and still linked in a list of the
\* endpoint
DanglingRx ==
    {x \in DOMAIN rx_entry :
        /\ rx_entry[x].state = "RXR_RX_FREE"
        /\ \/ InList(ep.rx_entry_queued_list, x)
           \/ InList(rx_list, x)
           \/ InList(rx_tagged_list, x)}

Dangling == DanglingPeers # {} \/ DanglingTx # {} \/ DanglingRx # {}

\* fi_av_remove of one peer
PeerAvRemove == AvRemoveOf(1)

\* the peer process has restarted: fi_av_insert of its new address, with
\* the GID and the QPN of the address it had
RestartInsert ==
    /\ \E i \in LivePeers : util_av[i] = OldAddr
    /\ AvInsertOf({<<NewAddr>>}, {"none"})

\* fi_av_insert of the peer into the AV of an endpoint that has posted
\* nothing yet
FirstInsert ==
    /\ LivePeers = {}
    /\ ep.wire = <<>> /\ ep.peer_queued_list = <<>> /\ ep.tx_entry_queued_list = <<>>
    /\ SendInsert

\* fi_sendmsg of a message of one byte
SendOne ==
    /\ Running
    /\ Len(tx_cq) < MaxCq
    /\ \E i \in LivePeers, accept \in {0, MaxAccept} :
          /\ conn[i].rdm_peer.next_msg_id < MaxSend
          /\ \E s \in {rxr_msg_generic_send([St EXCEPT !.accept = accept],
                                            FiMsg(i, 1, 1, {}))} :
                Finish(s, "fi_sendmsg", <<i, 1>>)
    /\ UNCHANGED envVars

\* a progress call while every entry of the lists of the endpoint is in use
ProgressLive == ~Dangling /\ ProgressIdleOf({FI_EAGAIN}, {0}, {{}})

\* a progress call that walks a list in which a released peer or entry is
\* linked: efa_rdm_peer_clear has zeroed the links of the peer, and the
\* walk follows them
ProgressDangling ==
    /\ Running
    /\ Dangling
    /\ Finish(Crash(St), "rxr_ep_progress", <<>>)
    /\ UNCHANGED envVars

NextRelease ==
    \/ FirstInsert
    \/ RestartInsert
    \/ PeerAvRemove
    \/ HandshakeTo
    \/ SendOne
    \/ ProgressLive
    \/ ProgressDangling

SpecRelease == InitSend /\ [][NextRelease]_vars

NextShm ==
    \/ ShmInsert
    \/ FiSendmsg
    \/ ProgressIdle
    \/ ProgressSendCompletion
    \/ ProgressShmRnr

SpecShm == InitSend /\ [][NextShm]_vars

----------------------------------------------------------------------------
(* Receiving: long-CTS messages of a remote sender, which are matched with  *)
(* posted receives, answered with CTS and RECEIPT packets, and cancelled     *)

\* the length of the messages of the remote sender
LongLen == efa_max_medium_msg_size + 1

\* rxr_msg_recv with a buffer of len bytes, in CUDA memory or not
rxr_msg_recv(s, context, len, cuda) ==
    Bind(rxr_msg_generic_recv(s, context, FALSE),
         LAMBDA s1 :
            IF s1.r # 0 \/ s1.rx_list = s.rx_list THEN s1
            ELSE [s1 EXCEPT !.rx_entry[s1.rx_list[Len(s1.rx_list)]].cq_len = len,
                            !.rx_entry[s1.rx_list[Len(s1.rx_list)]].cuda = cuda,
                            !.ep.buf[context] = 0])

\* fi_recv with a buffer that holds a message, while no other receive is
\* posted
FiRecv ==
    /\ Running
    /\ rx_list = <<>>
    /\ rx_cq = <<>>
    /\ \E context \in {1}, cuda \in BOOLEAN :
          \E s \in {rxr_msg_recv(St, context, LongLen, cuda)} :
             /\ s.r = 0
             /\ Finish(s, "fi_recv", <<context>>)
    /\ UNCHANGED envVars

\* the remote endpoint sends a long-CTS message: the RTM packet carries the
\* first bytes of the payload and the sender's credit request
RemoteRtm ==
    /\ Running
    /\ remote.sent < MaxMsg
    /\ \E credit_request \in {0, 2}, dc \in {{}, {"dc"}} :
          net' = net \cup
                   {[Pkt(RXR_LONGCTS_MSGRTM_PKT,
                         {"RXR_REQ_OPT_RAW_ADDR_HDR", "RXR_REQ_OPT_CONNID_HDR"} \cup dc,
                         OldAddr, 0, remote.sent + 1)
                     EXCEPT !.msg_length = LongLen, !.len = max_data_payload_size,
                            !.send_id = 1, !.credit_request = credit_request]}
    /\ remote' = [remote EXCEPT !.sent = @ + 1]
    /\ ev' = [NoEv EXCEPT !.op = "send"]
    /\ UNCHANGED <<avVars, epVars, ep, tx_entry, rx_entry, crashed, closed>>

\* the remote endpoint has a CTS of the RX entry (none waits to be sent once
\* more) and bytes are left of its window: it sends the next DATA packet
RemoteData ==
    /\ Running
    /\ \E x \in DOMAIN rx_entry :
          /\ rx_entry[x].state = "RXR_RX_RECV"
          /\ ~\E k \in DOMAIN ep.rx_entry_queued_list : ep.rx_entry_queued_list[k] = x
          /\ rx_entry[x].window > 0
          /\ rx_entry[x].bytes_received < rx_entry[x].total_len
          /\ ~\E pkt \in net : pkt.type = RXR_DATA_PKT
          /\ net' = net \cup
                      {[Pkt(RXR_DATA_PKT, {OptConnidFlag(RXR_DATA_PKT)}, OldAddr, x, 1)
                        EXCEPT !.len = MIN(MIN(rx_entry[x].window, max_data_payload_size),
                                           rx_entry[x].total_len
                                              - rx_entry[x].bytes_received),
                               !.offset = rx_entry[x].bytes_received]}
    /\ ev' = [NoEv EXCEPT !.op = "data"]
    /\ UNCHANGED <<avVars, epVars, ep, tx_entry, rx_entry, remote, crashed, closed>>

\* a progress call that polls an RTM packet that finds a posted receive, or
\* a DATA packet
ProgressRecvData ==
    /\ Running
    /\ \E pkt \in net :
          /\ pkt.type \in {RXR_LONGCTS_MSGRTM_PKT, RXR_DATA_PKT}
          /\ pkt.type = RXR_LONGCTS_MSGRTM_PKT => MatchRx(St) # 0
          /\ ProgressOf(LAMBDA s : rdm_ep_poll_ibv_cq(s, pkt, s.ub),
                        AllAccepts, {FI_EAGAIN}, {0}, Expired)
          /\ net' = net \ {pkt}
    /\ UNCHANGED <<closed, remote>>

NextRecv ==
    \/ FiRecv
    \/ RemoteRtm
    \/ RemoteData
    \/ ProgressRecvData
    \/ ProgressIdle
    \/ ProgressSendCompletion
    \/ Cancel
    \/ CqRead

SpecRecv == InitCancel /\ [][NextRecv]_vars

\* a progress call that polls the error completion of a CTS packet whose
\* receiver was not ready: the remote endpoint has not had the CTS, and has
\* sent nothing for it
ProgressRnrCts ==
    /\ Running
    /\ \E k \in DOMAIN ep.wire :
          /\ ep.wire[k].owner = "rx"
          /\ ep.wire[k].type = RXR_CTS_PKT
          /\ rx_entry[ep.wire[k].id].state = "RXR_RX_RECV"
          /\ rx_entry[ep.wire[k].id].window = ep.wire[k].recv_length
          /\ ~\E pkt \in net : pkt.type = RXR_DATA_PKT
          /\ \A j \in DOMAIN ep.wire :
                j > k => ~(ep.wire[j].owner = "rx" /\ ep.wire[j].id = ep.wire[k].id)
          /\ ProgressOf(LAMBDA s : PollRnr(s, k), AllAccepts, {FI_EAGAIN}, {0}, Timers)
    /\ UNCHANGED envVars

\* receiving from a remote endpoint whose receiver is not ready now and then
NextRecvRnr ==
    \/ FiRecv
    \/ RemoteRtm
    \/ RemoteData
    \/ ProgressRecvData
    \/ ProgressIdle
    \/ ProgressSendCompletion
    \/ ProgressRnrCts
    \/ CqRead

SpecRecvRnr == InitCancel /\ [][NextRecvRnr]_vars

\* the application keeps calling the progress engine, the transport takes
\* posts again and again, and the remote endpoint sends what it may send
SpecRecvFair ==
    /\ SpecRecv
    /\ WF_vars(ProgressAccepting)
    /\ WF_vars(ProgressAcked)
    /\ WF_vars(ProgressRecvData)
    /\ WF_vars(RemoteData)

----------------------------------------------------------------------------
(* Ordering: the messages of a sender carry consecutive 32-bit msg_ids and  *)
(* arrive in any order; the reorder buffer of the peer (ofi_recvwin) hands  *)
(* them on in msg_id order.  A msg_id is kept as its two 16-bit halves,     *)
(* <<high, low>>, and the arithmetic is that of uint32_t.                   *)

Half == 2 ^ 16

\* id + 1
u32_inc(id) ==
    IF id[2] = Half - 1 THEN <<(id[1] + 1) % Half, 0>> ELSE <<id[1], id[2] + 1>>

\* id + n
RECURSIVE u32_add(_, _)
u32_add(id, n) == IF n = 0 THEN id ELSE u32_add(u32_inc(id), n - 1)

\* a - b
u32_sub(a, b) ==
    <<(a[1] - b[1] - (IF a[2] < b[2] THEN 1 ELSE 0) + Half) % Half,
      (a[2] - b[2] + Half) % Half>>

\* a comparison of msg_ids that does not wrap
val_inrange(start, length, value) ==
    /\ value[1] = start[1]
    /\ value[2] >= start[2]
    /\ value[2] - start[2] < length

\* ofi_val32_inrange: value is one of the length ids from start on
ofi_val32_inrange(start, length, value) ==
    /\ u32_sub(value, start)[1] = 0
    /\ u32_sub(value, start)[2] < length

\* rxr_cq_reorder_msg: r is 0 for the message the peer expects, 1 for a
\* message of the window, which is kept in the reorder buffer, and the
\* error for a msg_id outside the window
rxr_cq_reorder_msg(s, addr, pkt) ==
    IF pkt.msg_id = s.conn[addr].rdm_peer.exp_msg_id
    THEN [s EXCEPT !.trace = Append(@, Step("reorder", pkt.msg, 0, 0)), !.r = 0]
    ELSE IF ~ofi_val32_inrange(s.conn[addr].rdm_peer.exp_msg_id, recvwin_size, pkt.msg_id)
    THEN [s EXCEPT !.trace = Append(@, Step("reorder", pkt.msg, 0, -FI_EIO)), !.r = -FI_EIO]
    ELSE [s EXCEPT !.conn[addr].rdm_peer.robuf = @ \cup {pkt},
                   !.trace = Append(@, Step("reorder", pkt.msg, 0, 1)),
                   !.r = 1]

\* the message the peer expects is handed on, and the window slides
rxr_pkt_proc_rtm_rta(s, pkt, addr) ==
    Bind(rxr_pkt_handle_rtm_recv(s, pkt),
         LAMBDA s1 : [s1 EXCEPT !.conn[addr].rdm_peer.exp_msg_id = u32_inc(@),
                                !.conn[addr].rdm_peer.robuf = @ \ {pkt}])

\* rxr_cq_proc_pending_items_in_recvwin: the messages of the reorder buffer
\* that follow the one just handed on
RECURSIVE rxr_cq_proc_pending_items_in_recvwin(_, _)
rxr_cq_proc_pending_items_in_recvwin(s, addr) ==
    IF \A pkt \in s.conn[addr].rdm_peer.robuf :
          pkt.msg_id # s.conn[addr].rdm_peer.exp_msg_id
    THEN s
    ELSE Bind(rxr_pkt_proc_rtm_rta(
                  s, CHOOSE pkt \in s.conn[addr].rdm_peer.robuf :
                        pkt.msg_id = s.conn[addr].rdm_peer.exp_msg_id, addr),
              LAMBDA s1 : rxr_cq_proc_pending_items_in_recvwin(s1, addr))

\* rxr_pkt_handle_rtm_rta_recv: an RTM packet of a peer with a reorder buffer
rxr_pkt_handle_rtm_rta_recv(s, pkt, addr) ==
    Bind(rxr_cq_reorder_msg(s, addr, pkt),
         LAMBDA s1 :
            IF s1.r = 1 THEN [s1 EXCEPT !.r = 0]
            ELSE IF s1.r # 0 THEN rxr_cq_handle_error(s1, s1.r)
            ELSE Bind(rxr_pkt_proc_rtm_rta(s1, pkt, addr),
                      LAMBDA s2 : rxr_cq_proc_pending_items_in_recvwin(s2, addr)))

\* the peer of the sender
OrderPeer == ofi_av_lookup_fi_addr_unsafe(util_av, OldAddr)

\* the messages handed on: the completions of the receives they matched,
\* and after them the unexpected messages
Delivered ==
    [k \in 1 .. Len(rx_cq) |-> rx_cq[k].msg]
       \o [k \in 1 .. Len(rx_unexp_list) |-> rx_unexp_list[k].msg]

\* the two endpoints have exchanged 2^32 - 2 messages, which have all been
\* handed on: the next msg_id is the last but one before the wrap
EarlierTraffic ==
    /\ Running
    /\ OrderPeer # FI_ADDR_NOTAVAIL
    /\ remote.sent = 0
    /\ conn[OrderPeer].rdm_peer.exp_msg_id = <<0, 0>>
    /\ conn' = [conn EXCEPT ![OrderPeer].rdm_peer.exp_msg_id = <<Half - 1, Half - 2>>]
    /\ ev' = [NoEv EXCEPT !.op = "traffic"]
    /\ UNCHANGED <<util_av, ah_map, reverse_av, used, shm_used, shm_rdm_addr_map, shm_av,
                   epVars, ep, tx_entry, rx_entry, net, remote, crashed, closed>>

\* the sender sends its next eager message, which gets the msg_id that
\* follows the one of the message before
OrderSend ==
    /\ Running
    /\ OrderPeer # FI_ADDR_NOTAVAIL
    /\ remote.sent < MaxOrder
    /\ net' = net \cup
                {[Pkt(RXR_EAGER_MSGRTM_PKT, {"RXR_REQ_OPT_CONNID_HDR"}, OldAddr, 0,
                      remote.sent + 1)
                  EXCEPT !.msg_id = u32_add(conn[OrderPeer].rdm_peer.exp_msg_id,
                                            remote.sent - Len(Delivered))]}
    /\ remote' = [remote EXCEPT !.sent = @ + 1]
    /\ ev' = [NoEv EXCEPT !.op = "send"]
    /\ UNCHANGED <<avVars, epVars, ep, tx_entry, rx_entry, crashed, closed>>

\* the progress engine takes one of the packets from the device's CQ,
\* whatever the order they were sent in
OrderPoll ==
    /\ Running
    /\ \E pkt \in net :
          /\ Finish(rxr_pkt_handle_rtm_rta_recv(St, pkt, OrderPeer),
                    "rdm_ep_poll_ibv_cq", <<>>)
          /\ net' = net \ {pkt}
    /\ UNCHANGED <<closed, remote>>

NextOrder == SendInsert \/ EarlierTraffic \/ OrderSend \/ OrderPoll \/ PostRecvAny

SpecOrder == InitCancel /\ [][NextOrder]_vars

\* the progress engine is called until no packet is left
SpecOrderFair == SpecOrder /\ WF_vars(OrderPoll)

----------------------------------------------------------------------------
(* Properties of the address vector *)

\* the inserted fi_addrs whose address has GID g
LivePeersOf(g) == {i \in LivePeers : util_av[i].gid = g}

\* the reverse map entries that point to conn i
EntriesOf(i) == {e \in reverse_av : e.conn = i}

\* the steps of the last operation that are event e
StepsOf(e) == {k \in DOMAIN ev.trace : ev.trace[k].e = e}

\* C7: after every AV operation, for each GID the used count of the cached
\* address handle equals the number of live peers whose address has that GID,
\* and the GID has an entry in the AH cache exactly when that number is at
\* least 1.
C7_AhUsedCount ==
    ~crashed =>
        \A g \in Gids :
            /\ ah_map[g].used = Cardinality(LivePeersOf(g))
            /\ ah_map[g].present <=> Cardinality(LivePeersOf(g)) >= 1

\* C7 witness: after an insert, one address handle is shared by two live peers
\* and another GID has none
C7_Witness ==
    /\ ev.op = "fi_av_insert"
    /\ ~crashed
    /\ \E g, h \in Gids :
          /\ Cardinality(LivePeersOf(g)) = 2
          /\ ah_map[g].used = 2
          /\ ~ah_map[h].present

\* C9 as stated: after every AV operation, every live peer has exactly one
\* reverse map entry, keyed by its (AHN,QPN) and pointing to it; every entry
\* points to a live peer; no two live peers share an (AHN,QPN) key.
C9_ReverseMap ==
    ~crashed =>
        /\ \A i \in LivePeers :
              /\ Cardinality(EntriesOf(i)) = 1
              /\ \A e \in EntriesOf(i) :
                    e.ahn = ahn_of(conn[i].ah) /\ e.qpn = conn[i].ep_addr.qpn
        /\ \A e \in reverse_av : e.conn \in LivePeers
        /\ \A i, j \in LivePeers :
              i # j => <<util_av[i].gid, util_av[i].qpn>> # <<util_av[j].gid, util_av[j].qpn>>

\* C4: when insert finds the (AHN,QPN) of the new address in the reverse map,
\* the previous peer is released before the new one is registered; afterwards
\* reverse lookup of (AHN,QPN) gives the new peer only, the old peer holds no
\* AV resources, and the address handle shared by both is still alive.
C4_QpReuse ==
    (ev.op = "fi_av_insert" /\ ~crashed) =>
        \A k \in StepsOf("HASH_ADD") :
            ev.trace[k].flag =>
                LET new == ev.trace[k].conn
                    g == ev.trace[k].gid
                    rel == {j \in StepsOf("efa_conn_release") :
                               /\ j < k
                               /\ ev.trace[j].gid = g
                               /\ ev.trace[j].conn # new
                               /\ \A m \in StepsOf("HASH_ADD") : ~(j < m /\ m < k)}
                    last == \A m \in DOMAIN ev.trace :
                               m > k => ev.trace[m].e \notin {"HASH_ADD", "efa_conn_release"}
                IN /\ Cardinality(rel) = 1
                   /\ last =>
                        \A j \in rel :
                            LET prev == ev.trace[j].conn
                            IN /\ {e \in reverse_av : e.ahn = ahn_of(g) /\ e.qpn = util_av[new].qpn}
                                      = {[ahn |-> ahn_of(g), qpn |-> util_av[new].qpn, conn |-> new]}
                               /\ efa_ahn_qpn_to_addr(St, ahn_of(g), util_av[new].qpn) = new
                               /\ util_av[prev] = NoAddr
                               /\ conn[prev] = NoConn
                               /\ EntriesOf(prev) = {}
                               /\ \A x \in ShmIndex : shm_rdm_addr_map[x] # prev
                               /\ ah_map[g].present
                               /\ ah_map[g].used >= 1
                               /\ \A m \in StepsOf("ibv_destroy_ah") : ev.trace[m].gid # g

\* C4 witness: an insert has replaced a peer of the same GID and QPN and
\* another qkey
C4_Witness ==
    /\ ev.op = "fi_av_insert"
    /\ ~crashed
    /\ \E k \in StepsOf("HASH_ADD") :
          /\ ev.trace[k].flag
          /\ k = Len(ev.trace)
          /\ conn[ev.trace[k].conn].rdm_peer.prev_qkey # 0
          /\ conn[ev.trace[k].conn].rdm_peer.prev_qkey # conn[ev.trace[k].conn].ep_addr.qkey

\* C6: inserting raw addresses that are already in the AV returns the fi_addr
\* of the first insert and changes nothing else: no address handle is created,
\* and no AH used count, reverse map entry or used count changes.
C6_DuplicateInsert ==
    [][(/\ ev'.op = "fi_av_insert"
        /\ ev'.ret >= 0
        /\ \A k \in DOMAIN ev'.args :
              ofi_av_lookup_fi_addr_unsafe(util_av, ev'.args[k]) # FI_ADDR_NOTAVAIL)
       => /\ ev'.out = [k \in DOMAIN ev'.args |->
                           ofi_av_lookup_fi_addr_unsafe(util_av, ev'.args[k])]
          /\ ev'.ret = Len(ev'.args)
          /\ ev'.trace = <<>>
          /\ UNCHANGED <<avVars, tx_entry, rx_entry, crashed>>]_vars

\* C6 witness: an insert of an address that was in the AV has returned its
\* fi_addr without a step on the AH cache or the reverse map
C6_Witness ==
    /\ ev.op = "fi_av_insert"
    /\ ev.ret = 1
    /\ Len(ev.args) = 1
    /\ ev.trace = <<>>
    /\ util_av[ev.out[1]] = ev.args[1]

\* C8: removing peers that no entry references destroys the address handle of
\* a GID if and only if the last live peer with that GID is removed; the
\* handle is destroyed exactly once, by the release that takes its used count
\* to 0.
C8_AhDestroy ==
    [][(ev'.op = "fi_av_remove" /\ ~crashed')
       => \A g \in Gids :
            LET rel == {k \in DOMAIN ev'.trace :
                           ev'.trace[k].e = "efa_conn_release" /\ ev'.trace[k].gid = g}
                des == {k \in DOMAIN ev'.trace :
                           ev'.trace[k].e = "ibv_destroy_ah" /\ ev'.trace[k].gid = g}
                n == Cardinality(LivePeersOf(g))
            IN /\ Cardinality(des) = IF rel # {} /\ Cardinality(rel) = n THEN 1 ELSE 0
               /\ ah_map'[g].used = ah_map[g].used - Cardinality(rel)
               /\ des # {} <=> (ah_map[g].used > 0 /\ ah_map'[g].used = 0)
               /\ \A k \in des : k - 1 \in rel /\ \A j \in rel : j < k
               /\ ah_map'[g].present <=> (ah_map[g].present /\ des = {})]_vars

\* C8 witness: a remove has released one of two peers that share an address
\* handle, and the handle is still there with one use
C8_Witness ==
    /\ ev.op = "fi_av_remove"
    /\ ~crashed
    /\ ev.ret = 0
    /\ \E g \in Gids :
          /\ \E k \in StepsOf("efa_conn_release") : ev.trace[k].gid = g
          /\ StepsOf("ibv_destroy_ah") = {}
          /\ ah_map[g].present
          /\ ah_map[g].used = 1

\* a remove has released the last peer of a GID and destroyed its handle
C8_WitnessLast ==
    /\ ev.op = "fi_av_remove"
    /\ ~crashed
    /\ \E k \in StepsOf("ibv_destroy_ah") : ~ah_map[ev.trace[k].gid].present

----------------------------------------------------------------------------
(* Properties of peers with TX and RX entries *)

\* the TX and RX entries in use that belong to peer i
TxOf(i) == {t \in TxIds : tx_entry[t].state # "RXR_TX_FREE" /\ tx_entry[t].addr = i}
RxOf(i) == {x \in RxIds : rx_entry[x].state # "RXR_RX_FREE" /\ rx_entry[x].addr = i}

\* C1: AV remove of an fi_addr whose peer is referenced by an in-use TX or RX
\* entry returns EBUSY and changes nothing of that peer: the peer, its reverse
\* map entry, its shm mapping and the used count of its address handle are as
\* before; when it is the first fi_addr of the call, nothing at all changes.
C1_RemoveBusy ==
    [][ev'.op = "fi_av_remove"
       => \A k \in DOMAIN ev'.args :
            LET a == ev'.args
                i == a[k]
                g == util_av[i].gid
            IN (/\ i \in LivePeers
                /\ efa_peer_in_use(conn[i].rdm_peer)
                /\ \A j \in 1 .. (k - 1) :
                      a[j] \in LivePeers /\ ~efa_peer_in_use(conn[a[j]].rdm_peer))
               => /\ ev'.ret = -FI_EBUSY
                  /\ ~crashed'
                  /\ util_av'[i] = util_av[i]
                  /\ conn'[i] = conn[i]
                  /\ {e \in reverse_av' : e.conn = i} = EntriesOf(i)
                  /\ Cardinality(EntriesOf(i)) = 1
                  /\ \A x \in ShmIndex : shm_rdm_addr_map'[x] = i <=> shm_rdm_addr_map[x] = i
                  /\ ah_map'[g].present
                  /\ ah_map'[g].used
                        = ah_map[g].used
                          - Cardinality({j \in 1 .. (k - 1) : util_av[a[j]].gid = g})
                  /\ \A t \in TxOf(i) : tx_entry'[t] = tx_entry[t]
                  /\ \A x \in RxOf(i) : rx_entry'[x] = rx_entry[x]
                  /\ k = 1 => UNCHANGED <<avVars, tx_entry, rx_entry, crashed>>]_vars

\* C1 witness: a remove of a peer that an entry references has returned EBUSY
C1_Witness ==
    /\ ev.op = "fi_av_remove"
    /\ ev.ret = -FI_EBUSY
    /\ Len(ev.args) = 1
    /\ ev.args[1] \in LivePeers
    /\ efa_peer_in_use(conn[ev.args[1]].rdm_peer)

\* a remove has released its first fi_addr and returned EBUSY for the second
C1_WitnessSecond ==
    /\ ev.op = "fi_av_remove"
    /\ ev.ret = -FI_EBUSY
    /\ Len(ev.args) = 2
    /\ StepsOf("efa_conn_release") # {}
    /\ efa_peer_in_use(conn[ev.args[2]].rdm_peer)

\* C5 as stated: on every path that releases a peer (remove, replacement on
\* QP reuse, AV close) the TX and RX entry lists of the peer are empty at the
\* moment of the release.
C5_ListsEmptyAtRelease ==
    \A k \in StepsOf("efa_conn_release") : ~ev.trace[k].flag

\* C5 amended: AV remove releases a peer only when no in-use TX or RX entry
\* references it.  Replacement on QP reuse and AV close release the peer also
\* when its lists are not empty, and efa_rdm_peer_clear then releases the
\* entries of the lists with the peer: after every operation each in-use
\* entry with a peer belongs to a live peer and is on that peer's list, and
\* the lists hold nothing else.
C5_ReleaseClearsLists ==
    ~crashed =>
        /\ ev.op = "fi_av_remove" => \A k \in StepsOf("efa_conn_release") : ~ev.trace[k].flag
        /\ \A k \in StepsOf("efa_conn_release") :
              ev.trace[k].flag => ev.op \in {"fi_av_insert", "fi_close"}
        /\ \A t \in TxIds :
              tx_entry[t].state # "RXR_TX_FREE" => tx_entry[t].addr \in LivePeers
        /\ \A x \in RxIds :
              rx_entry[x].state # "RXR_RX_FREE" =>
                  rx_entry[x].addr \in LivePeers \cup {FI_ADDR_UNSPEC}
        /\ \A i \in AvIndex :
              /\ conn[i].rdm_peer.tx_entry_list = TxOf(i)
              /\ conn[i].rdm_peer.rx_entry_list = RxOf(i)
              /\ i \notin LivePeers => ~efa_peer_in_use(conn[i].rdm_peer)

\* C5 witness: an insert has replaced a peer that a TX entry referenced, and
\* the entry has been released with it
C5_Witness ==
    /\ ev.op = "fi_av_insert"
    /\ ~crashed
    /\ \E k \in StepsOf("efa_conn_release") : ev.trace[k].flag
    /\ \A t \in TxIds : tx_entry[t] = FreeTx

\* AV close has released a peer that an RX entry referenced
C5_WitnessClose ==
    /\ ev.op = "fi_close"
    /\ \E k \in StepsOf("efa_conn_release") : ev.trace[k].flag
    /\ \A x \in RxIds : rx_entry[x] = FreeRx

----------------------------------------------------------------------------
(* Properties of receive cancellation *)

\* the posted receives of a list that a cancel with the context matches
MatchesOf(list, context) == {k \in DOMAIN list : rx_entry[list[k]].op_context = context}

\* C10 as stated: a cancel call that matches a posted receive writes exactly
\* one entry to the rx_cq, the FI_ECANCELED error entry of that receive, and
\* the entries that were in the rx_cq stay as they are.
C10_CancelOnce ==
    [][(/\ ev'.op = "fi_cancel"
        /\ MatchesOf(rx_list, ev'.args[1]) \cup MatchesOf(rx_tagged_list, ev'.args[1]) # {})
       => /\ Len(rx_cq') = Len(rx_cq) + 1
          /\ SubSeq(rx_cq', 1, Len(rx_cq)) = rx_cq
          /\ rx_cq'[Len(rx_cq')] = CqEntry(ev'.args[1], FI_ECANCELED, 0, 0)]_vars

----------------------------------------------------------------------------
(* Properties of QP reuse *)

\* the peer a packet resolves to
AddrOf(pkt) == efa_ahn_qpn_to_addr(St, ahn_of(pkt.gid), pkt.qpn)

\* C2 as stated, for the packets that are not REQ packets: a received packet
\* that carries a connid different from the connid stored for the peer it
\* resolves to is dropped with no effect: no TX or RX entry changes state, no
\* data is delivered, and no completion or error entry is written.
C2_StaleDropped ==
    [][\A pkt \in net :
          (/\ ev'.op = "rdm_ep_poll_ibv_cq"
           /\ ev'.args = <<pkt>>
           /\ pkt.type < RXR_REQ_PKT_BEGIN
           /\ OptConnidFlag(pkt.type) \in pkt.flags
           /\ AddrOf(pkt) # FI_ADDR_NOTAVAIL
           /\ pkt.connid # conn[AddrOf(pkt)].ep_addr.qkey)
          => UNCHANGED <<avVars, tx_entry, rx_entry, epVars, crashed>>]_vars

\* message k of the second remote endpoint has completed a receive
Completed(k) ==
    \E j \in DOMAIN rx_cq :
        rx_cq[j].err = 0 /\ rx_cq[j].connid = NewAddr.qkey /\ rx_cq[j].msg = k

\* C3 as stated: when a peer is destroyed and a new peer with the same GID and
\* QPN and another connid starts sending, every message of the new peer is
\* eventually received and completed, whatever stale packets of the old peer
\* arrive in between.
C3_NewPeerCompletes ==
    \A k \in 1 .. MaxMsg : (remote.sent >= k) ~> Completed(k)

----------------------------------------------------------------------------
(* Properties of the progress engine *)

\* the posts of the steps of the last operation: those the transport took
\* (flag 0) and those it refused (flag the error)
PostsOf(trace) == {k \in DOMAIN trace : trace[k].e = "fi_post"}

\* the posts of the last operation the transport refused with the error
RefusedOf(trace, err) == {k \in PostsOf(trace) : trace[k].flag = err}

\* the error entries of a completion queue
ErrorsOf(cq) == SelectSeq(cq, LAMBDA e : e.err # 0)

\* the TX entry, RX entry or peer of a packet entry is on the list of the
\* endpoint the progress engine posts its packets from
OnItsList(e, pkt_entry) ==
    IF pkt_entry.owner = "peer"
    THEN \E k \in DOMAIN e.peer_queued_list : e.peer_queued_list[k] = pkt_entry.id
    ELSE IF pkt_entry.owner = "rx"
    THEN \E k \in DOMAIN e.rx_entry_queued_list : e.rx_entry_queued_list[k] = pkt_entry.id
    ELSE IF pkt_entry.type = 0
    THEN \E k \in DOMAIN e.read_pending_list : e.read_pending_list[k] = pkt_entry.id
    ELSE IF pkt_entry.type = RXR_DATA_PKT /\ pkt_entry.state = "RXR_PKT_ENTRY_IN_USE"
    THEN \E k \in DOMAIN e.tx_pending_list : e.tx_pending_list[k] = pkt_entry.id
    ELSE \E k \in DOMAIN e.tx_entry_queued_list : e.tx_entry_queued_list[k] = pkt_entry.id

C15_HandshakeFailureSilent ==
    [][(\E k \in PostsOf(ev'.trace) :
           /\ ev'.trace[k].gid.type = RXR_HANDSHAKE_PKT
           /\ ev'.trace[k].flag # 0)
       => /\ ~crashed'
          /\ ep'.eq = ep.eq
          /\ ErrorsOf(rx_cq') = ErrorsOf(rx_cq)
          /\ ErrorsOf(tx_cq') = ErrorsOf(tx_cq)
          /\ \A k \in DOMAIN ev'.trace : ev'.trace[k].e # "return"]_vars

\* the completions of TX entries the last operation wrote
CompletionsOf(trace) == {k \in DOMAIN trace : trace[k].e = "tx_completion"}

\* C12: a TX entry that finishes writes exactly one completion: the entry
\* was in use, it is released by the step that writes the completion, no
\* step writes two completions for one entry, and the tx_cq grows by one
\* entry per completion.  The completion is written when bytes_acked equals
\* total_len and, for an entry sent with FI_DELIVERY_COMPLETE, when the
\* RECEIPT for it has been received.
C12_OneCompletion ==
    [][/\ \A k \in CompletionsOf(ev'.trace) :
             /\ tx_entry[ev'.trace[k].conn].state # "RXR_TX_FREE"
             /\ tx_entry'[ev'.trace[k].conn].state = "RXR_TX_FREE"
             /\ ev'.trace[k].gid.bytes_acked = ev'.trace[k].gid.total_len
             /\ "FI_DELIVERY_COMPLETE" \in ev'.trace[k].gid.fi_flags
                   => "RXR_RECEIPT_RECEIVED" \in ev'.trace[k].gid.rxr_flags
             /\ \A l \in CompletionsOf(ev'.trace) :
                   ev'.trace[l].conn = ev'.trace[k].conn => l = k
       /\ ev'.op # "fi_cq_read"
             => Len(tx_cq') = Len(tx_cq) + Cardinality(CompletionsOf(ev'.trace))
       /\ \A t \in DOMAIN tx_entry :
             (tx_entry[t].state # "RXR_TX_FREE" /\ tx_entry'[t].state = "RXR_TX_FREE")
                => \E k \in CompletionsOf(ev'.trace) : ev'.trace[k].conn = t]_vars

\* a long message sent with FI_DELIVERY_COMPLETE has completed: its
\* completion is on the tx_cq
C12_Witness ==
    \E k \in CompletionsOf(ev.trace) :
       /\ "FI_DELIVERY_COMPLETE" \in ev.trace[k].gid.fi_flags
       /\ ev.trace[k].gid.total_len > efa_max_medium_msg_size
       /\ tx_cq # <<>>

\* the step is the post of a new DATA packet of TX entry t the transport
\* has accepted
IsData(step, t) ==
    /\ step.e = "fi_post"
    /\ step.flag = 0
    /\ step.gid.type = RXR_DATA_PKT
    /\ step.gid.owner = "tx"
    /\ step.gid.id = t
    /\ step.gid.state = "RXR_PKT_ENTRY_IN_USE"

\* the bytes of the new DATA packets of TX entry t in the first k steps
RECURSIVE DataBytes(_, _, _)
DataBytes(trace, t, k) ==
    IF k = 0 THEN 0
    ELSE DataBytes(trace, t, k - 1)
            + (IF IsData(trace[k], t) THEN trace[k].gid.len ELSE 0)

\* the window of TX entry t the DATA packets of a step are posted under:
\* the one of the CTS the step handles, or the one left
WindowOf(t, polled) ==
    IF \E pkt \in polled : pkt.type = RXR_CTS_PKT /\ pkt.id = t
    THEN (CHOOSE pkt \in polled : pkt.type = RXR_CTS_PKT /\ pkt.id = t).recv_length
    ELSE tx_entry[t].window

\* C17: DATA of a long-CTS transfer is posted only while the window of the
\* entry is greater than 0, and never more than the window grants: each DATA
\* packet starts where the last one ended and carries the payload of a full
\* packet, or what is left of the window or of the message if that is
\* less, so a window of k bytes is sent in the least number of packets, and
\* the window that is left is the window granted less the bytes posted.
C17_DataWithinWindow ==
    [][\A t \in DOMAIN tx_entry :
          /\ \A k \in DOMAIN ev'.trace :
                IsData(ev'.trace[k], t)
                   => /\ tx_entry[t].state # "RXR_TX_FREE"
                      /\ WindowOf(t, net \ net') - DataBytes(ev'.trace, t, k - 1) > 0
                      /\ ev'.trace[k].gid.offset
                            = tx_entry[t].bytes_sent + DataBytes(ev'.trace, t, k - 1)
                      /\ ev'.trace[k].gid.len > 0
                      /\ ev'.trace[k].gid.len
                            = MIN(MIN(tx_entry[t].total_len - ev'.trace[k].gid.offset,
                                      max_data_payload_size),
                                  WindowOf(t, net \ net')
                                     - DataBytes(ev'.trace, t, k - 1))
          /\ DataBytes(ev'.trace, t, Len(ev'.trace)) <= WindowOf(t, net \ net')
          /\ (tx_entry'[t].state # "RXR_TX_FREE"
                  /\ DataBytes(ev'.trace, t, Len(ev'.trace)) > 0)
                => tx_entry'[t].window
                      = WindowOf(t, net \ net') - DataBytes(ev'.trace, t, Len(ev'.trace))]_vars

\* one progress call has posted two DATA packets for a window that is not a
\* multiple of the payload of a packet: the second one is cut to the window
C17_Witness ==
    \E t \in DOMAIN tx_entry :
       \E k, l \in DOMAIN ev.trace :
          /\ k < l
          /\ IsData(ev.trace[k], t)
          /\ IsData(ev.trace[l], t)
          /\ ev.trace[l].gid.len < max_data_payload_size
          /\ ev.trace[l].gid.offset + ev.trace[l].gid.len < tx_entry[t].total_len

\* the TX entries of the endpoint that sends
SendTxIds == 1 .. (MaxTx + 1)

\* the transport has taken some of the MEDIUM_RTM packets of the message of
\* TX entry t and not the others
PartialBurst(t) ==
    /\ tx_entry[t].state = "RXR_TX_QUEUED_CTRL"
    /\ ReqType(tx_entry[t].total_len) = RXR_MEDIUM_MSGRTM_PKT
    /\ 0 < tx_entry[t].bytes_sent
    /\ tx_entry[t].bytes_sent < tx_entry[t].total_len

\* the step is the post of a new MEDIUM_RTM packet of TX entry t the
\* transport has accepted
IsMedium(step, t) ==
    /\ step.e = "fi_post"
    /\ step.flag = 0
    /\ step.gid.type = RXR_MEDIUM_MSGRTM_PKT
    /\ step.gid.owner = "tx"
    /\ step.gid.id = t
    /\ step.gid.state = "RXR_PKT_ENTRY_IN_USE"

\* the bytes of the new MEDIUM_RTM packets of TX entry t in the first k steps
RECURSIVE MediumBytes(_, _, _)
MediumBytes(trace, t, k) ==
    IF k = 0 THEN 0
    ELSE MediumBytes(trace, t, k - 1)
            + (IF IsMedium(trace[k], t) THEN trace[k].gid.len ELSE 0)

\* the message of TX entry t has completed
TxCompleted(t) ==
    \E k \in CompletionsOf(ev.trace) :
       /\ ev.trace[k].conn = t
       /\ ev.trace[k].gid.bytes_acked = ev.trace[k].gid.total_len
       /\ tx_cq # <<>>
       /\ tx_cq[Len(tx_cq)].err = 0

\* C13: when the transport has taken only some packets of a burst of
\* MEDIUM_RTM packets, the message is not aborted: its TX entry is queued
\* with the endpoint, no step releases it or writes an error for it, the
\* packets that are left are posted in order, each one starting where the
\* one before it ended, and, when the transport takes posts again and the
\* peer leaves backoff, the message completes.
C13_PartialBurstCompletes ==
    /\ [](\A t \in SendTxIds :
            PartialBurst(t)
               => /\ \E k \in DOMAIN ep.tx_entry_queued_list :
                        ep.tx_entry_queued_list[k] = t
                  /\ tx_entry[t].queued_ctrl = RXR_MEDIUM_MSGRTM_PKT)
    /\ [][\A t \in SendTxIds :
            PartialBurst(t)
               => /\ tx_entry'[t].state # "RXR_TX_FREE"
                  /\ ErrorsOf(tx_cq') = ErrorsOf(tx_cq)
                  /\ \A k \in DOMAIN ev'.trace :
                        IsMedium(ev'.trace[k], t)
                           => ev'.trace[k].gid.offset
                                 = tx_entry[t].bytes_sent
                                      + MediumBytes(ev'.trace, t, k - 1)
                  /\ tx_entry'[t].bytes_sent
                        = tx_entry[t].bytes_sent
                             + MediumBytes(ev'.trace, t, Len(ev'.trace))]_vars
    /\ \A t \in SendTxIds : PartialBurst(t) ~> TxCompleted(t)

\* the transport took one MEDIUM_RTM packet of three, and a later progress
\* call has posted the two that were left
C13_Witness ==
    \E t \in SendTxIds :
       /\ ev.op = "rxr_ep_progress"
       /\ tx_entry[t].state = "RXR_TX_REQ"
       /\ tx_entry[t].bytes_sent = tx_entry[t].total_len
       /\ MediumBytes(ev.trace, t, Len(ev.trace)) = 2 * max_data_payload_size

\* C11: once an RX entry is flagged RXR_RECV_CANCEL, the payload of a packet
\* that arrives for it is not copied or read into the receive buffer of the
\* application: the progress call that handles the packet leaves the buffer
\* as it is, and counts the bytes of the packet as received.
C11_CancelledDataSunk ==
    [][\A pkt \in net \ net' :
          (/\ pkt.type = RXR_DATA_PKT
           /\ rx_entry[pkt.id].state # "RXR_RX_FREE"
           /\ "RXR_RECV_CANCEL" \in rx_entry[pkt.id].rxr_flags)
             => /\ ep'.buf = ep.buf
                /\ \A k \in DOMAIN ev'.trace :
                      ev'.trace[k].e \notin {"ofi_copy_to_iov", "local_read"}
                /\ rx_entry'[pkt.id].state # "RXR_RX_FREE"
                      => rx_entry'[pkt.id].bytes_received
                            = rx_entry[pkt.id].bytes_received + pkt.len]_vars

\* the step is the post of a CTS packet the transport has accepted
IsCts(step) ==
    /\ step.e = "fi_post"
    /\ step.flag = 0
    /\ step.gid.type = RXR_CTS_PKT

\* the RX entries of the endpoint that receives
RecvRxIds == 1 .. (MaxRx + 1)

\* a long-CTS message has been matched with RX entry x and bytes of it have
\* not arrived
Receiving(x) ==
    /\ rx_entry[x].state \in {"RXR_RX_RECV", "RXR_RX_QUEUED_CTRL"}
    /\ rx_entry[x].bytes_received < rx_entry[x].total_len

\* all bytes of the message of RX entry x have arrived
Received(x) ==
    \/ rx_entry[x].state = "RXR_RX_FREE"
    \/ rx_entry[x].bytes_received = rx_entry[x].total_len

\* C16: every CTS grants a window greater than 0, which is not more than the
\* bytes that are left, so the sender may send a DATA packet for each CTS:
\* with every CTS round bytes_received grows, and a long-CTS transfer, when
\* the transport takes posts again and the sender sends what it may send,
\* receives all its bytes.
C16_CtsGrantsProgress ==
    /\ [][\A k \in DOMAIN ev'.trace :
            IsCts(ev'.trace[k])
               => /\ ev'.trace[k].gid.recv_length > 0
                  /\ rx_entry'[ev'.trace[k].gid.id].window = ev'.trace[k].gid.recv_length
                  /\ ev'.trace[k].gid.recv_length
                        <= rx_entry'[ev'.trace[k].gid.id].total_len
                              - rx_entry'[ev'.trace[k].gid.id].bytes_received]_vars
    /\ [][\A x \in RecvRxIds :
            (Receiving(x) /\ rx_entry'[x].state # "RXR_RX_FREE")
               => rx_entry'[x].bytes_received >= rx_entry[x].bytes_received]_vars
    /\ \A x \in RecvRxIds : Receiving(x) ~> Received(x)

\* a transfer has taken the most CTS rounds it can take: the sender asked
\* for no credits, and the CTS for the last byte has been posted
C16_Witness ==
    \E k \in DOMAIN ev.trace :
       /\ IsCts(ev.trace[k])
       /\ ev.trace[k].gid.recv_length = 1
       /\ rx_entry[ev.trace[k].gid.id].credit_request = 0
       /\ rx_entry[ev.trace[k].gid.id].bytes_received = LongLen - 1

\* the step is the post of a RECEIPT packet the transport has accepted
IsReceipt(step) ==
    /\ step.e = "fi_post"
    /\ step.flag = 0
    /\ step.gid.type = RXR_RECEIPT_PKT

\* C19: under delivery-complete the completion of the sender is written
\* only after the RECEIPT for the operation has been received, and the
\* receiver sends the RECEIPT only after the payload is in the buffer of the
\* application: when the RECEIPT of an RX entry is posted, the buffer of its
\* receive holds all bytes of the message.
C19_ReceiptAfterDelivery ==
    [][/\ \A k \in CompletionsOf(ev'.trace) :
             "FI_DELIVERY_COMPLETE" \in ev'.trace[k].gid.fi_flags
                => "RXR_RECEIPT_RECEIVED" \in ev'.trace[k].gid.rxr_flags
       /\ \A k \in DOMAIN ev'.trace :
             IsReceipt(ev'.trace[k])
                => /\ rx_entry[ev'.trace[k].gid.id].state # "RXR_RX_FREE"
                   /\ "RXR_DELIVERY_COMPLETE_REQUESTED"
                         \in rx_entry[ev'.trace[k].gid.id].rxr_flags
                   /\ ep'.buf[rx_entry[ev'.trace[k].gid.id].op_context]
                         = rx_entry[ev'.trace[k].gid.id].total_len]_vars

\* C18: the messages of a peer are handed to the application in the order
\* of their msg_ids, which is the order they were sent in, whatever the
\* order their packets arrive in, also when the msg_id wraps from 2^32 - 1
\* to 0; no message is refused, and every message that was sent is handed
\* on.
C18_MsgIdOrder ==
    /\ [](/\ Delivered = [k \in 1 .. Len(Delivered) |-> k]
          /\ ErrorsOf(rx_cq) = <<>>)
    /\ \A k \in 1 .. MaxOrder : (remote.sent >= k) ~> (Len(Delivered) >= k)

\* the message with msg_id 0 has arrived before the one with msg_id
\* 2^32 - 1, which the peer expects, and is kept in the reorder buffer
C18_Witness ==
    /\ OrderPeer # FI_ADDR_NOTAVAIL
    /\ conn[OrderPeer].rdm_peer.exp_msg_id = <<Half - 1, Half - 1>>
    /\ \E pkt \in conn[OrderPeer].rdm_peer.robuf : pkt.msg_id = <<0, 0>>

\* C20: the outstanding-transmit counter of the endpoint never exceeds
\* max_outstanding_tx: every post to the EFA transport, packet send or RDMA
\* read, is made while the counter is below the cap.
C20_TxPendingCap == ep.tx_pending <= max_outstanding_tx

AvOf(s) ==
    <<s.util_av, s.conn, s.ah_map, s.reverse_av, s.used, s.shm_used,
      s.shm_rdm_addr_map, s.shm_av>>

\* the k-th address of a call has the all-zero GID and the addresses
\* before it were inserted, so that the call gets to it
ZeroGidAt(e, k) ==
    /\ e.args[k].gid = 0
    /\ \A j \in 1 .. (k - 1) : e.out[j] # FI_ADDR_NOTAVAIL

C22_ZeroGidRejected ==
    /\ [](\A fault \in Faults, uninit \in {NullEntry, WildEntry} :
             \E s \in {efa_av_insert_one(St, ZeroGidAddr, fault, uninit)} :
                /\ s.r = FI_ADDR_NOTAVAIL
                /\ AvOf(s) = AvOf(St)
                /\ s.crashed = crashed)
    /\ [][ev'.op = "fi_av_insert" /\ ev'.ret >= 0 /\ ~crashed' =>
             \A k \in DOMAIN ev'.args :
                ZeroGidAt(ev', k) =>
                   /\ ev'.out[k] = FI_ADDR_NOTAVAIL
                   /\ \E n \in DOMAIN ev'.trace :
                         /\ ev'.trace[n].e = "efa_av_insert_one"
                         /\ ev'.trace[n].gid = ev'.args[k]
                         /\ ev'.trace[n].conn = FI_ADDR_NOTAVAIL
                         /\ ev'.trace[n].flag = -FI_EADDRNOTAVAIL
                   /\ ev'.ret = k - 1
                   /\ k = 1 => UNCHANGED avVars]_vars

\* a call of fi_av_insert with a valid address and then one of the all-zero
\* GID has inserted the first and refused the second
C22_Witness ==
    /\ ev.op = "fi_av_insert"
    /\ Len(ev.args) = 2
    /\ ZeroGidAt(ev, 2)
    /\ ev.ret = 1
    /\ ev.out[1] # FI_ADDR_NOTAVAIL
    /\ ev.out[2] = FI_ADDR_NOTAVAIL
    /\ used = 1

\* the send completions of a status a progress call polled
PolledOf(trace, status) == {n \in DOMAIN trace : trace[n].e = status}

\* C25: whenever a successful send completion is polled for a packet to a
\* peer that is in backoff, the backoff of the peer is reset: IN_BACKOFF is
\* cleared and rnr_timeout is 0
C25_CompletionResetsBackoff ==
    [][ev'.op = "rxr_ep_progress" /\ ~crashed' =>
          \A n \in PolledOf(ev'.trace, "IBV_WC_SUCCESS") :
             \A i \in {ev'.trace[n].conn} \cap LivePeers :
                "RXR_PEER_IN_BACKOFF" \in conn[i].rdm_peer.flags =>
                   /\ "RXR_PEER_IN_BACKOFF" \notin conn'[i].rdm_peer.flags
                   /\ conn'[i].rdm_peer.rnr_timeout = 0]_vars

\* the steps of a call that read or write the state of an RX entry, each
\* logged with the endpoint lock as the calling thread holds it
RxEntrySteps == {"RXR_RECV_CANCEL", "err_entry", "rxr_release_rx_entry"}

\* C24: every mutation of endpoint, peer, TX, RX and packet-pool state
\* happens while the endpoint lock is held, the release of a cancelled RX
\* entry and the reads of its state and completion fields during a cancel
\* included
C24_UnderLock ==
    [][\A n \in DOMAIN ev'.trace :
          ev'.trace[n].e \in RxEntrySteps => ev'.trace[n].flag = 1]_vars

\* C27: no packet send and no RDMA read is posted for a peer that has
\* IN_BACKOFF set; a send attempt during backoff returns EAGAIN and leaves
\* tx_pending unchanged
C27_NoPostInBackoff ==
    /\ [](\A i \in LivePeers, type \in {RXR_DATA_PKT, RXR_HANDSHAKE_PKT} :
             InBackoff(St, i) =>
                \E s \in {rxr_pkt_entry_sendmsg(St, PktEntry(type, i, "peer", i, 0, 0))} :
                   /\ s.r = -FI_EAGAIN
                   /\ s.ep = ep
                   /\ s.conn = conn)
    /\ [][~crashed' =>
             \A n \in RefusedOf(ev'.trace, 0) :
                "RXR_PEER_IN_BACKOFF" \notin conn'[ev'.trace[n].gid.addr].rdm_peer.flags]_vars

\* x is on the list
\* C28: the sweep of the TX queued list sends all queued packets of an entry
\* (and its deferred control packet); the entry then leaves the queued list
\* and goes to state REQ if it was QUEUED_REQ_RNR or QUEUED_CTRL, or to
\* state SEND and to the end of the pending list if it was QUEUED_DATA_RNR;
\* on EAGAIN it stays queued in its state
C28_TxQueuedSweep ==
    \A accept \in AllAccepts :
       \E s \in {TxQueuedLoop([St EXCEPT !.accept = accept], ep.tx_entry_queued_list)} :
          ~s.crashed =>
             \A t \in DOMAIN tx_entry :
                InList(ep.tx_entry_queued_list, t) =>
                   IF ~InList(s.ep.tx_entry_queued_list, t)
                   THEN /\ s.tx_entry[t].queued_pkts = <<>>
                        /\ tx_entry[t].state \in {"RXR_TX_QUEUED_REQ_RNR", "RXR_TX_QUEUED_CTRL"}
                              => /\ s.tx_entry[t].state = "RXR_TX_REQ"
                                 /\ InList(s.ep.tx_pending_list, t)
                                       <=> InList(ep.tx_pending_list, t)
                        /\ tx_entry[t].state = "RXR_TX_QUEUED_DATA_RNR"
                              => /\ s.tx_entry[t].state = "RXR_TX_SEND"
                                 /\ s.ep.tx_pending_list # <<>>
                                 /\ s.ep.tx_pending_list[Len(s.ep.tx_pending_list)] = t
                                       \/ \E u \in DOMAIN tx_entry \ {t} :
                                             /\ InList(ep.tx_entry_queued_list, u)
                                             /\ InList(s.ep.tx_pending_list, t)
                   ELSE /\ s.tx_entry[t].state = tx_entry[t].state
                        /\ InBackoff(St, tx_entry[t].addr) \/ s.r = -FI_EAGAIN

\* a progress call has sent the queued DATA packet of a TX entry once more:
\* the entry is off the queued list, in state SEND and on the pending list
C28_Witness ==
    /\ ev.op = "rxr_ep_progress"
    /\ \E n \in RefusedOf(ev.trace, 0) :
          /\ ev.trace[n].gid.owner = "tx"
          /\ ev.trace[n].gid.state = "RXR_PKT_ENTRY_RNR_RETRANSMIT"
          /\ ev.trace[n].gid.type = RXR_DATA_PKT
          /\ tx_entry[ev.trace[n].gid.id].state = "RXR_TX_SEND"
          /\ InList(ep.tx_pending_list, ev.trace[n].gid.id)
          /\ ~InList(ep.tx_entry_queued_list, ev.trace[n].gid.id)

\* C29: whenever an RX entry is in state QUEUED_CTRL its list of queued
\* packets is empty: an RX entry never has a deferred control packet and
\* RNR-queued packets pending at the same time
C29_QueuedCtrlNoPkts ==
    \A x \in DOMAIN rx_entry :
       rx_entry[x].state = "RXR_RX_QUEUED_CTRL" => rx_entry[x].queued_pkts = <<>>

\* a control packet of an RX entry is deferred, after a CTS of the entry met
\* a receiver that was not ready and was sent once more
C29_Witness ==
    \E x \in DOMAIN rx_entry :
       /\ rx_entry[x].state = "RXR_RX_QUEUED_CTRL"
       /\ rx_entry[x].bytes_received > 0
       /\ rx_entry[x].addr \in LivePeers
       /\ conn[rx_entry[x].addr].rdm_peer.rnr_timeout # 0

\* the packet types that are no REQ and may carry a connid
ConnidTypes ==
    {RXR_CTS_PKT, RXR_DATA_PKT, RXR_READRSP_PKT, RXR_EOR_PKT, RXR_RECEIPT_PKT,
     RXR_HANDSHAKE_PKT}

\* C30: for each packet type that is no REQ and can carry a connid (CTS,
\* DATA, READRSP, EOR, RECEIPT, HANDSHAKE) the connid lookup returns the
\* connid field of the packet when the OPT_CONNID_HDR flag of the type is
\* set, and nothing only when the flag is clear
C30_ConnidLookup ==
    \A pkt \in net :
       pkt.type \in ConnidTypes =>
          rxr_pkt_connid_hdr(pkt) =
              IF OptConnidFlag(pkt.type) \in pkt.flags THEN pkt.connid ELSE NoConnid

\* the place of a step of a progress call in the order of the progress
\* engine; 0 for a step that has no place of its own
PhaseOf(st) ==
    CASE st.e \in {"IBV_WC_SUCCESS", "IBV_WC_RNR_RETRY_EXC_ERR"} -> 1
      [] st.e = "return" -> IF st.gid = "rxr_ep_bulk_post_recv" THEN 3 ELSE 0
      [] st.e = "rxr_peer_timeout_expired" -> 4
      [] st.e = "fi_post" ->
            IF st.gid.type = RXR_HANDSHAKE_PKT THEN 5
            ELSE IF st.gid.owner = "rx" THEN 6
            ELSE IF st.gid.type = 0 THEN 9
            ELSE IF st.gid.state = "RXR_PKT_ENTRY_RNR_RETRANSMIT" \/ st.gid.type # RXR_DATA_PKT
            THEN 7
            ELSE 8
      [] OTHER -> 0

OnBackoffList(e) == {e.peer_backoff_list[k] : k \in DOMAIN e.peer_backoff_list}

\* a progress call that polled no send completion and went on after it had
\* posted receive buffers: its backoff walk is all that touches the backoff
\* of the peers
WalkOnly(e) ==
    /\ e.op = "rxr_ep_progress"
    /\ PolledOf(e.trace, "IBV_WC_SUCCESS") = {}
    /\ PolledOf(e.trace, "IBV_WC_RNR_RETRY_EXC_ERR") = {}
    /\ \A n \in DOMAIN e.trace :
          e.trace[n].e = "return" => e.trace[n].gid # "rxr_ep_bulk_post_recv"

\* C26: the walk of the backoff list clears IN_BACKOFF of a peer and takes
\* the peer off the list if and only if the RNR timeout of the peer has
\* expired; a peer whose timeout has not expired keeps IN_BACKOFF and stays
\* on the list
C26_BackoffWalk ==
    /\ [](\A expired \in SUBSET AvIndex :
             \E s \in {rxr_ep_check_peer_backoff_timer(St, expired)} :
                \A i \in AvIndex :
                   IF i \in OnBackoffList(ep) /\ rxr_peer_timeout_expired(St, i, expired)
                   THEN /\ "RXR_PEER_IN_BACKOFF" \notin s.conn[i].rdm_peer.flags
                        /\ i \notin OnBackoffList(s.ep)
                   ELSE /\ "RXR_PEER_IN_BACKOFF" \in s.conn[i].rdm_peer.flags
                               <=> "RXR_PEER_IN_BACKOFF" \in conn[i].rdm_peer.flags
                        /\ i \in OnBackoffList(s.ep) <=> i \in OnBackoffList(ep))
    /\ [][WalkOnly(ev') /\ ~crashed' =>
             \A i \in OnBackoffList(ep) :
                /\ i \notin OnBackoffList(ep')
                       => "RXR_PEER_IN_BACKOFF" \notin conn'[i].rdm_peer.flags
                /\ i \in OnBackoffList(ep')
                       => /\ conn[i].rdm_peer.rnr_timeout # 0
                          /\ "RXR_PEER_IN_BACKOFF" \in conn'[i].rdm_peer.flags
                                 <=> "RXR_PEER_IN_BACKOFF" \in conn[i].rdm_peer.flags]_vars

\* a progress call found the timeout of a peer in backoff expired: the peer
\* is off the backoff list and its backoff has ended
C26_Witness ==
    /\ WalkOnly(ev)
    /\ \E i \in LivePeers :
          /\ conn[i].rdm_peer.rnr_timeout # 0
          /\ i \notin OnBackoffList(ep)
          /\ "RXR_PEER_IN_BACKOFF" \notin conn[i].rdm_peer.flags
          /\ \E t \in DOMAIN tx_entry : tx_entry[t].addr = i

C39_RemoveFreeFails ==
    [][/\ ev'.op = "fi_av_remove"
       /\ \E k \in DOMAIN ev'.args :
             ev'.args[k] \in AvIndex /\ util_av[ev'.args[k]] = NoAddr
       => /\ ev'.ret < 0
          /\ ~crashed'
          /\ ah_map' = ah_map
          /\ reverse_av' = reverse_av
          /\ used' = used]_vars

\* the packets of a queue that are no more on it
LeftQueue(q, q2) == {k \in DOMAIN q : \A j \in DOMAIN q2 : q2[j] # q[k]}

\* C40: a packet leaves the queued packets of a TX entry in a progress call
\* only when the transport has accepted it in that call
C40_QueuedPktSent ==
    [][\A t \in DOMAIN tx_entry :
          tx_entry'[t].state # "RXR_TX_FREE" /\ ~crashed'
          => \A k \in LeftQueue(tx_entry[t].queued_pkts, tx_entry'[t].queued_pkts) :
                \E p \in RefusedOf(ev'.trace, 0) :
                   /\ ev'.trace[p].gid.id = t
                   /\ ev'.trace[p].gid.type = tx_entry[t].queued_pkts[k].type]_vars

\* a progress call has sent the queued packet of a TX entry, which is off the
\* queue, to a peer of another host
C40_Witness ==
    /\ ev.op = "rxr_ep_progress"
    /\ \E p \in RefusedOf(ev.trace, 0) :
          /\ ev.trace[p].gid.state = "RXR_PKT_ENTRY_RNR_RETRANSMIT"
          /\ ev.trace[p].gid.owner = "tx"
          /\ tx_entry[ev.trace[p].gid.id].state # "RXR_TX_FREE"
          /\ tx_entry[ev.trace[p].gid.id].queued_pkts = <<>>

\* the reads of a TX entry the transport accepted in the last operation
ReadPostsOf(trace, t) ==
    {k \in RefusedOf(trace, 0) :
        trace[k].gid.type = 0 /\ trace[k].gid.owner = "tx" /\ trace[k].gid.id = t}

\* bytes_submitted of a TX entry before the operation that may have made it
SubmittedBefore(t) ==
    IF tx_entry[t].op = "ofi_op_read_req" THEN tx_entry[t].bytes_submitted ELSE 0

\* C35: the reads a call posts for a read entry hold every byte between
\* bytes_submitted before the call and after it exactly once; bytes_submitted
\* never decreases nor passes total_len, and is total_len when the entry is
\* neither on the read-pending list nor released
C35_ReadSubmitsOnce ==
    [][\A t \in DOMAIN tx_entry :
          tx_entry'[t].op = "ofi_op_read_req" /\ tx_entry'[t].state # "RXR_TX_FREE"
              /\ ~crashed'
          => /\ SubmittedBefore(t) <= tx_entry'[t].bytes_submitted
             /\ tx_entry'[t].bytes_submitted <= tx_entry'[t].total_len
             /\ \A k \in ReadPostsOf(ev'.trace, t) :
                   /\ ev'.trace[k].gid.offset >= SubmittedBefore(t)
                   /\ ev'.trace[k].gid.offset + ev'.trace[k].gid.len
                          <= tx_entry'[t].bytes_submitted
             /\ \A b \in SubmittedBefore(t) .. (tx_entry'[t].bytes_submitted - 1) :
                   Cardinality({k \in ReadPostsOf(ev'.trace, t) :
                                   /\ ev'.trace[k].gid.offset <= b
                                   /\ b < ev'.trace[k].gid.offset + ev'.trace[k].gid.len}) = 1
             /\ ~InList(ep'.read_pending_list, t)
                   => tx_entry'[t].bytes_submitted = tx_entry'[t].total_len]_vars

\* a progress call has posted the rest of a read that an earlier call had
\* left on the read-pending list with some of its bytes submitted
C35_Witness ==
    /\ ev.op = "rxr_ep_progress"
    /\ \E t \in DOMAIN tx_entry :
          /\ tx_entry[t].op = "ofi_op_read_req"
          /\ tx_entry[t].state # "RXR_TX_FREE"
          /\ tx_entry[t].bytes_submitted = tx_entry[t].total_len
          /\ ~InList(ep.read_pending_list, t)
          /\ ReadPostsOf(ev.trace, t) # {}
          /\ \A k \in ReadPostsOf(ev.trace, t) : ev.trace[k].gid.offset > 0

\* the read entries for which the transport has not taken all reads
ReadsUnsubmitted(tx) ==
    {t \in DOMAIN tx : /\ tx[t].op = "ofi_op_read_req"
                        /\ tx[t].state # "RXR_TX_FREE"
                        /\ tx[t].bytes_submitted < tx[t].total_len}

\* the posts of reads of a TX entry the transport refused with the error
ReadRefusedOf(trace, t, err) ==
    {k \in RefusedOf(trace, err) :
        trace[k].gid.type = 0 /\ trace[k].gid.owner = "tx" /\ trace[k].gid.id = t}

\* C36: a read entry is on the read-pending list while the transport has
\* answered -FI_EAGAIN to a post of it and no later post has gone through or
\* failed with another error: it is on the list once; it joins the list in
\* the call whose post had -FI_EAGAIN; it stays while its peer is in backoff
\* or its retry has -FI_EAGAIN; it leaves when the retry has posted all its
\* bytes, or failed with another error and the entry is released
C36_ReadPending ==
    /\ [](~crashed =>
             /\ Injective(ep.read_pending_list)
             /\ \A t \in DOMAIN tx_entry :
                   InList(ep.read_pending_list, t) <=> t \in ReadsUnsubmitted(tx_entry))
    /\ [][~crashed' =>
             \A t \in DOMAIN tx_entry :
                /\ ~InList(ep.read_pending_list, t) /\ InList(ep'.read_pending_list, t)
                       => /\ ev'.op = "fi_read"
                          /\ ReadRefusedOf(ev'.trace, t, FI_EAGAIN) # {}
                /\ InList(ep.read_pending_list, t) /\ InList(ep'.read_pending_list, t)
                       => /\ ReadRefusedOf(ev'.trace, t, FI_EIO) = {}
                          /\ ReadPostsOf(ev'.trace, t) # {}
                                 => ReadRefusedOf(ev'.trace, t, FI_EAGAIN) # {}
                          /\ "RXR_PEER_IN_BACKOFF" \in conn[tx_entry[t].addr].rdm_peer.flags
                                 /\ "RXR_PEER_IN_BACKOFF" \in conn'[tx_entry[t].addr].rdm_peer.flags
                                 => tx_entry'[t] = tx_entry[t]
                /\ InList(ep.read_pending_list, t) /\ ~InList(ep'.read_pending_list, t)
                       => /\ ev'.op = "rxr_ep_progress"
                          /\ \/ /\ tx_entry'[t].bytes_submitted = tx_entry'[t].total_len
                                /\ tx_entry'[t].state # "RXR_TX_FREE"
                                /\ ReadRefusedOf(ev'.trace, t, FI_EAGAIN) = {}
                                /\ ReadPostsOf(ev'.trace, t) # {}
                             \/ /\ tx_entry'[t].state = "RXR_TX_FREE"
                                /\ ReadRefusedOf(ev'.trace, t, FI_EIO) # {}]_vars

\* a progress call has met the read-pending entry of a peer in backoff and
\* left it on the list
C36_Witness ==
    /\ ev.op = "rxr_ep_progress"
    /\ \E t \in ReadsUnsubmitted(tx_entry) :
          /\ InList(ep.read_pending_list, t)
          /\ "RXR_PEER_IN_BACKOFF" \in conn[tx_entry[t].addr].rdm_peer.flags

C38_LockFreeOnReturn == ~crashed => ev.lock = 0

\* the posts of receive buffers of a pool in the steps of a call
RecvPosts(trace, pool) ==
    {k \in DOMAIN trace : trace[k].e = "fi_recvmsg" /\ trace[k].gid \in pool}

\* the call left rxr_ep_progress_internal where the refill failed
RefillFailed(trace) ==
    \E k \in DOMAIN trace :
       trace[k].e = "return" /\ trace[k].gid = "rxr_ep_bulk_post_recv"

\* to_post buffers of the pool were posted, each taken by the lower
\* endpoint, all with FI_MORE but the last
PostedAll(trace, pool, to_post) ==
    /\ Cardinality(RecvPosts(trace, pool)) = to_post
    /\ \A k \in RecvPosts(trace, pool) :
          /\ trace[k].flag = 0
          /\ trace[k].conn = 1 <=> \E l \in RecvPosts(trace, pool) : l > k

\* C33: a progress call whose refill of the receive buffers succeeds posts
\* as many buffers to each lower endpoint as its to-post counter counted,
\* all but the last with FI_MORE, and leaves both counters at 0 and the
\* recv_more chain empty
C33_RefillPostsAll ==
    [][ev'.op = "rxr_ep_progress" /\ ~crashed' /\ ~RefillFailed(ev'.trace)
       => /\ PostedAll(ev'.trace, rx_pkt_efa_pool, ep.rx_bufs_efa_to_post)
          /\ PostedAll(ev'.trace, rx_pkt_shm_pool, ep.rx_bufs_shm_to_post)
          /\ ep'.rx_bufs_efa_to_post = 0
          /\ ep'.rx_bufs_shm_to_post = 0
          /\ ep'.recv_more = <<>>]_vars

\* a refill has posted two buffers to the device, the first with FI_MORE,
\* and one to the shm endpoint
C33_Witness ==
    /\ ev.op = "rxr_ep_progress" /\ ~crashed /\ ~RefillFailed(ev.trace)
    /\ PostedAll(ev.trace, rx_pkt_efa_pool, 2)
    /\ PostedAll(ev.trace, rx_pkt_shm_pool, 1)
    /\ \A p \in rx_pkt_efa_pool \cup rx_pkt_shm_pool : ep.pkt[p].at = "device"
\* the to-post counter of the lower endpoint that receives the packets of
\* the peer
ToPostOf(e, addr) ==
    IF conn[addr].rdm_peer.is_local THEN e.rx_bufs_shm_to_post
    ELSE e.rx_bufs_efa_to_post

\* C31: rxr_pkt_get_unexp of the received packet in entry p leaves the
\* packet in one entry.  Either the entry is a clone in the unexpected pool
\* and the posted buffer p is released and counted for re-posting, or it is
\* p itself, still held; where the clone cannot be made (NULL) p is held
\* as before and nothing is released
C31_UnexpOneBuffer ==
    [][ev'.op = "rxr_pkt_get_unexp" /\ ~crashed'
       => \E p \in {ev'.args[1]} :
             \/ /\ ev'.ret \in rx_unexp_pkt_pool
                /\ ep.pkt[ev'.ret].free /\ ~ep'.pkt[ev'.ret].free
                /\ ep'.pkt[ev'.ret].type = "RXR_PKT_ENTRY_UNEXP"
                /\ ep'.pkt[ev'.ret].addr = ep.pkt[p].addr
                /\ ep.pkt[p].type = "RXR_PKT_ENTRY_POSTED"
                /\ ~ep.pkt[p].free /\ ep'.pkt[p].free
                /\ ToPostOf(ep', ep.pkt[p].addr) = ToPostOf(ep, ep.pkt[p].addr) + 1
                /\ ep'.rx_bufs_efa_to_post + ep'.rx_bufs_shm_to_post
                      = ep.rx_bufs_efa_to_post + ep.rx_bufs_shm_to_post + 1
                /\ \A q \in PktIds \ {p, ev'.ret} : ep'.pkt[q] = ep.pkt[q]
             \/ /\ ev'.ret = p
                /\ ~ep'.pkt[p].free
                /\ ep'.pkt[p].addr = ep.pkt[p].addr
                /\ \A q \in PktIds \ {p} : ep'.pkt[q] = ep.pkt[q]
                /\ ep'.rx_bufs_efa_to_post = ep.rx_bufs_efa_to_post
                /\ ep'.rx_bufs_shm_to_post = ep.rx_bufs_shm_to_post
             \/ /\ ev'.ret = 0
                /\ ep' = ep]_vars

\* the unexpected pool is in use, filled with the clones of two received
\* packets, and the clone of a third has failed: its posted buffer is held
C31_Witness ==
    /\ ev.op = "rxr_pkt_get_unexp" /\ ~crashed /\ ev.ret = 0
    /\ ep.pkt[ev.args[1]].at = "rx"
    /\ ep.pkt[ev.args[1]].type = "RXR_PKT_ENTRY_POSTED"
    /\ \A q \in rx_unexp_pkt_pool : ep.pkt[q].at = "unexp"
    /\ ep.rx_bufs_efa_to_post + ep.rx_bufs_shm_to_post = unexp_pool_size
\* C32: an entry of a packet pool is in the free list of its pool exactly
\* when it is not in use; no call allocates an entry that is in use, frees
\* an entry that is free, or reads a field of an entry it has freed, the
\* release of a chain of cloned entries included
C32_PoolEntriesAlternate ==
    /\ \A p \in PktIds : ep.pkt[p].free <=> ep.pkt[p].state = "RXR_PKT_ENTRY_FREE"
    /\ \A k \in DOMAIN ev.trace :
          /\ ev.trace[k].e \in {"ofi_buf_free", "ofi_buf_alloc"} => ev.trace[k].flag = 0
          /\ ev.trace[k].e # "read_after_free"

\* the same without the read of a freed entry
C32_AllocFreeAlternate ==
    /\ \A p \in PktIds : ep.pkt[p].free <=> ep.pkt[p].state = "RXR_PKT_ENTRY_FREE"
    /\ \A k \in DOMAIN ev.trace :
          ev.trace[k].e \in {"ofi_buf_free", "ofi_buf_alloc"} => ev.trace[k].flag = 0
\* C37: no list of the endpoint links a peer that has been released, or a
\* TX or RX entry that has been released
C37_NoListRefersToReleased == ~crashed => ~Dangling
====
